---- MODULE Spec2Model ----
(***************************************************************************)
(* lowKey-Stream: the Streaming Handler (StreamRequestHandler), the        *)
(* Catalog Scanner (VideoScanner), the Task Classifier and the Pipeline    *)
(* Worker (AutoConverter) of server/stream_server.py, and the batch tool   *)
(* of server/convert_videos.py.                                            *)
(*                                                                         *)
(* Text is modelled as a sequence of tokens.  The tokens "/", ".", "_"     *)
(* and "!" are the single characters the code inspects (path separator,    *)
(* extension dot, underscore, a character outside \w); every other token   *)
(* stands for a run of letters or digits.  A path is such a sequence, an   *)
(* HTTP Range header is one, a subtitle title is one.  A file is a record  *)
(* of its bytes (data) and of what the metadata probe reports about it     *)
(* (media).                                                                *)
(***************************************************************************)
EXTENDS Integers, Sequences, FiniteSets, TLC

VARIABLES
    fs,              \* the filesystem: a function from the paths of the files to the files
    \* ---- StreamRequestHandler (one request at a time per handler thread)
    req,             \* the request being handled, NoReq between requests
    resp,            \* the response written so far
    hpc,             \* handler position
    hfile,           \* the open file of _stream_file: data, position, remaining
    opened,          \* paths whose bytes the handler has read for this request
    proc,            \* the child transcoder of the live remux
    ffmpeg_path,     \* whether main() found the transcoder (ffmpeg_path is not empty)
    ffprobe_path,    \* whether the metadata probe was found (ffprobe_path is not None)
    \* ---- AutoConverter (the pipeline worker thread) and main()
    wpc,             \* worker position
    lists,           \* the four task lists of the running cycle
    task,            \* the task being executed
    converting_now,  \* AutoConverter.converting_now
    stop_event,      \* AutoConverter._stop_event
    video_list,      \* StreamRequestHandler.video_list (the published catalog)
    videos,          \* the local variable videos of main()
    hist,            \* history of the run: what the claims speak about
    \* ---- concurrent live-remux requests (ThreadingHTTPServer: a thread each)
    remux,           \* per handler thread: its position and its local variable proc
    children         \* the child transcoders started by Popen, in the order started

vars == <<fs, req, resp, hpc, hfile, opened, proc, ffmpeg_path, ffprobe_path,
          wpc, lists, task, converting_now, stop_event, video_list, videos, hist,
          remux, children>>

remuxVars == <<remux, children>>

httpVars == <<req, resp, hpc, hfile, opened, proc>>
pipeVars == <<ffprobe_path, wpc, lists, task, converting_now, stop_event,
              video_list, videos, hist>>

----------------------------------------------------------------------------
(* Sequences of tokens *)

Min(a, b) == IF a < b THEN a ELSE b

StartsWith(s, p) == Len(p) <= Len(s) /\ SubSeq(s, 1, Len(p)) = p

EndsWith(s, p) == Len(p) <= Len(s) /\ SubSeq(s, Len(s) - Len(p) + 1, Len(s)) = p

Drop(s, n) == SubSeq(s, n + 1, Len(s))

\* str.rfind: the last index of token c in s, 0 when there is none
RFind(s, c) ==
    LET I == {i \in 1..Len(s) : s[i] = c}
    IN  IF I = {} THEN 0 ELSE CHOOSE i \in I : \A j \in I : j <= i

\* str.find: the first index of token c in s, 0 when there is none
Find(s, c) ==
    LET I == {i \in 1..Len(s) : s[i] = c}
    IN  IF I = {} THEN 0 ELSE CHOOSE i \in I : \A j \in I : i <= j

\* str.split(c): the pieces of s between the occurrences of c
RECURSIVE Split(_, _)
Split(s, c) ==
    LET i == Find(s, c)
    IN  IF i = 0 THEN <<s>>
        ELSE <<SubSeq(s, 1, i - 1)>> \o Split(Drop(s, i), c)

\* the order of the characters the tokens begin with
TokenOrder == <<"/", "!", ".", "0", "1", "2", "3", "4", "5", "6", "7", "8", "9",
                "D", "F", "S", "_", "a", "avi", "b", "bak", "compress", "convert",
                "d", "e", "eng", "etc", "faststart", "h", "mkv", "mov", "mp4", "p",
                "rum", "s", "srt", "temp", "und", "v", "vtt", "w", "webm">>

Rank(t) == IF \E i \in 1..Len(TokenOrder) : TokenOrder[i] = t
           THEN CHOOSE i \in 1..Len(TokenOrder) : TokenOrder[i] = t
           ELSE Len(TokenOrder) + 1

\* p < q as sorted() orders two paths
RECURSIVE Before(_, _)
Before(p, q) ==
    IF p = <<>> THEN q # <<>>
    ELSE IF q = <<>> THEN FALSE
    ELSE IF p[1] = q[1] THEN Before(Tail(p), Tail(q))
    ELSE Rank(p[1]) < Rank(q[1])

\* sorted(S): the elements of a finite set of paths in ascending order
RECURSIVE Sorted(_)
Sorted(S) ==
    IF S = {} THEN <<>>
    ELSE LET m == CHOOSE x \in S : \A y \in S \ {x} : Before(x, y)
         IN  <<m>> \o Sorted(S \ {m})

SeqToSet(s) == {s[i] : i \in 1..Len(s)}

----------------------------------------------------------------------------
(* pathlib *)

\* PurePath.name
PathName(p) == Drop(p, RFind(p, "/"))

\* PurePath.parent
PathParent(p) == SubSeq(p, 1, RFind(p, "/") - 1)

\* the index of the dot that starts the suffix of a name, 0 when it has none
SuffixDot(n) ==
    LET i == RFind(n, ".")
    IN  IF 1 < i /\ i < Len(n) THEN i ELSE 0

\* PurePath.suffix, lower-cased: ".mp4" is <<".", "mp4">>
Lower(t) == CASE t = "MKV" -> "mkv" [] t = "MP4" -> "mp4" [] OTHER -> t

PathSuffix(p) ==
    LET n == PathName(p)
        i == SuffixDot(n)
    IN  IF i = 0 THEN <<>> ELSE [k \in 1..(Len(n) - i + 1) |-> Lower(n[i + k - 1])]

\* PurePath.stem
NameStem(n) == IF SuffixDot(n) = 0 THEN n ELSE SubSeq(n, 1, SuffixDot(n) - 1)

PathStem(p) == NameStem(PathName(p))

\* str.lstrip(c)
RECURSIVE LStrip(_, _)
LStrip(s, c) == IF s # <<>> /\ s[1] = c THEN LStrip(Tail(s), c) ELSE s

\* sub in s, for two strings
Contains(s, sub) ==
    \E i \in 0..(Len(s) - Len(sub)) : SubSeq(s, i + 1, i + Len(sub)) = sub

\* PurePath.suffixes, as the set of its members
PathSuffixes(p) ==
    LET n == PathName(p)
        parts == Split(LStrip(n, "."), ".")
    IN  IF n # <<>> /\ n[Len(n)] = "." THEN {}
        ELSE {<<".">> \o parts[k] : k \in 2..Len(parts)}

\* PurePath.with_name
WithName(p, n) == PathParent(p) \o <<"/">> \o n

\* PurePath.with_suffix
WithSuffix(p, suffix) == WithName(p, PathStem(p) \o suffix)

----------------------------------------------------------------------------
(* The filesystem *)

\* what the metadata probe reports of a file that is no media file
NoMedia == [bitrate |-> 0, subs |-> <<>>, audio |-> 0]

IsFile(p) == p \in DOMAIN fs

\* the directories: the watched root and every ancestor of a file
IsDir(p) == p = <<"/", "v">> \/ \E q \in DOMAIN fs : StartsWith(q, p \o <<"/">>)

Exists(p) == IsFile(p) \/ IsDir(p)

\* the filesystem f with path p holding file c
FsWrite(f, p, c) == [q \in DOMAIN f \cup {p} |-> IF q = p THEN c ELSE f[q]]

\* Path.unlink
FsUnlink(f, p) == [q \in DOMAIN f \ {p} |-> f[q]]

\* Path.rename (POSIX: an existing target is replaced)
FsRename(f, p, q) == FsWrite(FsUnlink(f, p), q, f[p])

\* StreamRequestHandler.video_folder and AutoConverter.video_folder
video_folder == <<"/", "v">>

\* (video_folder / relative_path): an absolute right operand replaces the left
JoinPath(folder, rel) ==
    IF rel # <<>> /\ rel[1] = "/" THEN rel ELSE folder \o <<"/">> \o rel

\* the segments of a path with "", "." dropped and ".." applied
RECURSIVE Normalize(_, _)
Normalize(segs, acc) ==
    IF segs = <<>> THEN acc
    ELSE LET g == Head(segs)
         IN  IF g = <<>> \/ g = <<".">> THEN Normalize(Tail(segs), acc)
             ELSE IF g = <<".", ".">>
                  THEN Normalize(Tail(segs),
                                 IF acc = <<>> THEN acc ELSE SubSeq(acc, 1, Len(acc) - 1))
             ELSE Normalize(Tail(segs), Append(acc, g))

RECURSIVE JoinSegs(_)
JoinSegs(segs) ==
    IF segs = <<>> THEN <<>> ELSE <<"/">> \o Head(segs) \o JoinSegs(Tail(segs))

\* Path.resolve() of an absolute path (the tree holds no symbolic links)
Resolve(p) == JoinSegs(Normalize(Split(p, "/"), <<>>))

----------------------------------------------------------------------------
(* HTTP requests and responses *)

Digits == <<"0", "1", "2", "3", "4", "5", "6", "7", "8", "9">>

IsDigit(t) == \E i \in 1..10 : Digits[i] = t

DigitVal(t) == (CHOOSE i \in 1..10 : Digits[i] = t) - 1

\* str.isdigit()
IsDigitStr(s) == s # <<>> /\ \A i \in 1..Len(s) : IsDigit(s[i])

\* int() of a string of decimal digits
RECURSIVE IntOf(_)
IntOf(s) ==
    IF s = <<>> THEN 0 ELSE 10 * IntOf(SubSeq(s, 1, Len(s) - 1)) + DigitVal(s[Len(s)])

\* the longest run of digits that s starts with
RECURSIVE DigitRun(_)
DigitRun(s) ==
    IF s # <<>> /\ IsDigit(s[1]) THEN <<s[1]>> \o DigitRun(Tail(s)) ELSE <<>>

\* re.match(r"bytes=(\d+)-(\d*)", range_header): the two groups, or no match.
\* The pattern is matched at the start of the header only; what follows the
\* second group is not looked at.
RangeMatch(h) ==
    LET g1   == DigitRun(Drop(h, 1))
        rest == Drop(h, 1 + Len(g1))
    IN  IF h # <<>> /\ h[1] = "bytes=" /\ g1 # <<>> /\ rest # <<>> /\ rest[1] = "-"
        THEN [ok |-> TRUE, g1 |-> g1, g2 |-> DigitRun(Tail(rest))]
        ELSE [ok |-> FALSE, g1 |-> <<>>, g2 |-> <<>>]

NoContentRange == [kind |-> "none", s |-> 0, e |-> 0, n |-> 0]

\* nothing sent yet
NoResp == [status |-> 0, cors |-> FALSE, ctype |-> "", accept_ranges |-> FALSE,
           content_range |-> NoContentRange, content_length |-> -1,
           cache_control |-> FALSE, errpage |-> FALSE, body |-> <<>>,
           catalog |-> <<>>, crashed |-> FALSE, aborted |-> FALSE]

\* the status line and the headers of a response, and whether the handler
\* ended with an exception
Headers(r) ==
    [status |-> r.status, cors |-> r.cors, ctype |-> r.ctype,
     accept_ranges |-> r.accept_ranges, content_range |-> r.content_range,
     content_length |-> r.content_length, cache_control |-> r.cache_control,
     crashed |-> r.crashed]

\* what a client keeps of the GET it repeats as a HEAD: nothing yet
NoTwin == [asked |-> FALSE, headers |-> Headers(NoResp)]

\* BaseHTTPRequestHandler.send_error: the status line, Content-Type: text/html,
\* Content-Length and Connection: close, then the error page (no page for HEAD).
\* It does not call _send_cors_headers.
send_error(code, head_only) ==
    [NoResp EXCEPT !.status = code, !.ctype = "text/html",
                   !.errpage = ~head_only]

\* the Content-Type of a video by its suffix
content_type(p) ==
    LET x == PathSuffix(p)
    IN  CASE x = <<".", "mp4">>  -> "video/mp4"
          [] x = <<".", "webm">> -> "video/webm"
          [] x = <<".", "mkv">>  -> "video/x-matroska"
          [] x = <<".", "avi">>  -> "video/x-msvideo"
          [] x = <<".", "mov">>  -> "video/quicktime"
          [] OTHER               -> "application/octet-stream"

\* where _route_request sends a path
Route(path) ==
    CASE path = <<"/", "api", "/", "videos">>     -> "api_videos"
      [] path = <<"/", "api", "/", "health">>     -> "api_health"
      [] StartsWith(path, <<"/", "video", "/">>)  -> "video"
      [] StartsWith(path, <<"/", "subs", "/">>)   -> "subs"
      [] OTHER                                    -> "other"

\* audio_param is not None and audio_param.isdigit()
AudioSelected(r) == r.audio_present /\ IsDigitStr(r.audio)

\* the check of the three file handlers: str(full_path).startswith(str(video_folder))
InsideRoot(full_path) == StartsWith(full_path, Resolve(video_folder))

----------------------------------------------------------------------------
(* StreamRequestHandler *)

\* the block size of _stream_file and of the remux pipe, scaled down from
\* 1 MiB and 64 KiB so that a small file takes several blocks
BlockSize == 2

\* the largest byte offset a Range header of the model names
MaxOff == 6

\* the largest number of blocks a remux child writes in the model
MaxChunks == 2

NoFile == [path |-> <<>>, data |-> <<>>, pos |-> 0, remaining |-> 0]

NoReq == [method |-> "", path |-> <<>>, audio_present |-> FALSE, audio |-> <<>>,
          range_present |-> FALSE, range |-> <<>>]

\* a handler that writes the body whatever the method
head_only_never == FALSE

head_only == req.method = "HEAD"

relative_path == Drop(req.path, 3)

full_path == Resolve(JoinPath(Resolve(video_folder), relative_path))

Receive(r) ==
    /\ hpc = "idle"
    /\ req' = r
    /\ resp' = NoResp
    /\ opened' = {}
    /\ proc' = "none"
    /\ hpc' = "route"
    /\ UNCHANGED <<fs, ffmpeg_path, hfile, pipeVars, remuxVars>>

Respond(r) ==
    /\ resp' = r
    /\ hpc' = "done"
    /\ UNCHANGED <<fs, ffmpeg_path, req, hfile, opened, proc, pipeVars, remuxVars>>

do_OPTIONS ==
    /\ hpc = "route"
    /\ req.method = "OPTIONS"
    /\ Respond([NoResp EXCEPT !.status = 204, !.cors = TRUE, !.content_length = 0])

Routed(to) ==
    /\ hpc = "route"
    /\ req.method \in {"GET", "HEAD"}
    /\ Route(req.path) = to

\* the else branch of _route_request
_route_not_found ==
    /\ Routed("other")
    /\ Respond(send_error(404, head_only))

\* the size of the JSON body of a list of entries, in abstract units
JsonSize(list) == Len(list) + 1

_handle_api_videos ==
    /\ Routed("api_videos")
    /\ Respond([NoResp EXCEPT !.status = 200, !.cors = TRUE,
                              !.ctype = "application/json",
                              !.content_length = JsonSize(video_list),
                              !.catalog = IF head_only THEN <<>> ELSE video_list])

_handle_api_health ==
    /\ Routed("api_health")
    /\ Respond([NoResp EXCEPT !.status = 200, !.cors = TRUE,
                              !.ctype = "application/json",
                              !.content_length = 1])

_handle_subtitle ==
    /\ Routed("subs")
    /\ IF ~InsideRoot(full_path)
       THEN Respond(send_error(403, head_only))
       ELSE IF ~Exists(full_path) \/ PathSuffix(full_path) # <<".", "vtt">>
       THEN Respond(send_error(404, head_only))
       ELSE /\ resp' = [NoResp EXCEPT !.status = 200, !.cors = TRUE,
                                      !.ctype = "text/vtt",
                                      !.content_length = Len(fs[full_path].data),
                                      !.body = IF head_only THEN <<>>
                                               ELSE fs[full_path].data]
            /\ opened' = opened \cup {full_path}
            /\ hpc' = "done"
            /\ UNCHANGED <<fs, ffmpeg_path, req, hfile, proc, pipeVars, remuxVars>>

\* a range end that ignores the end the header names
RangeEndOfFile(g2, file_size) == file_size - 1

\* a rejection rule that lets a start at the file size, or past the end, pass
PastSizeOnly(start, end, file_size) == start > file_size

\* a range end taken from the header as it is, past the end of the file or not
RangeEndUnclamped(g2, file_size) == IF g2 # <<>> THEN IntOf(g2) ELSE file_size - 1

\* end = int(group(2)) if group(2) else file_size - 1; end = min(end, file_size - 1)
RangeEnd(g2, file_size) ==
    Min(IF g2 # <<>> THEN IntOf(g2) ELSE file_size - 1, file_size - 1)

\* if start > end or start >= file_size
NotSatisfiable(start, end, file_size) == start > end \/ start >= file_size

\* _handle_video_stream down to end_headers()
_handle_video_stream ==
    /\ Routed("video")
    /\ ~AudioSelected(req)
    /\ IF ~InsideRoot(full_path)
       THEN Respond(send_error(403, head_only))
       ELSE IF ~Exists(full_path) \/ ~IsFile(full_path)
       THEN Respond(send_error(404, head_only))
       ELSE
         LET file_size   == Len(fs[full_path].data)
             range_match == RangeMatch(req.range)
             start       == IntOf(range_match.g1)
             end         == RangeEnd(range_match.g2, file_size)
             chunk_size  == end - start + 1
             stream(r, from, length) ==
                 /\ resp' = r
                 /\ hfile' = [path |-> full_path, data |-> <<>>, pos |-> from,
                              remaining |-> length]
                 /\ hpc' = IF head_only THEN "done" ELSE "open"
                 /\ UNCHANGED <<fs, ffmpeg_path, req, opened, proc, pipeVars, remuxVars>>
         IN  IF req.range_present /\ req.range # <<>>
             THEN IF ~range_match.ok
                  THEN Respond(send_error(416, head_only))
                  ELSE IF NotSatisfiable(start, end, file_size)
                  THEN Respond([NoResp EXCEPT
                                  !.status = 416, !.cors = TRUE,
                                  !.content_range = [kind |-> "unsat", s |-> 0,
                                                     e |-> 0, n |-> file_size]])
                  ELSE stream([NoResp EXCEPT
                                 !.status = 206, !.cors = TRUE,
                                 !.ctype = content_type(full_path),
                                 !.accept_ranges = TRUE,
                                 !.content_range = [kind |-> "range", s |-> start,
                                                    e |-> end, n |-> file_size],
                                 !.content_length = chunk_size],
                              start, chunk_size)
             ELSE stream([NoResp EXCEPT
                            !.status = 200, !.cors = TRUE,
                            !.ctype = content_type(full_path),
                            !.accept_ranges = TRUE,
                            !.content_length = file_size],
                         0, file_size)

\* _stream_file: open(file_path, "rb") and f.seek(start)
_stream_file_open ==
    /\ hpc = "open"
    /\ IF IsFile(hfile.path)
       THEN /\ hfile' = [hfile EXCEPT !.data = fs[hfile.path].data]
            /\ opened' = opened \cup {hfile.path}
            /\ hpc' = IF hfile.remaining > 0 THEN "stream" ELSE "done"
            /\ resp' = resp
       ELSE \* FileNotFoundError is not among the exceptions _stream_file catches
            /\ resp' = [resp EXCEPT !.crashed = TRUE]
            /\ hpc' = "done"
            /\ UNCHANGED <<hfile, opened>>
    /\ UNCHANGED <<fs, ffmpeg_path, req, proc, pipeVars, remuxVars>>

\* one iteration of the loop of _stream_file
_stream_file_block ==
    /\ hpc = "stream"
    /\ LET read_size == Min(BlockSize, hfile.remaining)
           data == SubSeq(hfile.data, hfile.pos + 1,
                          Min(hfile.pos + read_size, Len(hfile.data)))
       IN  IF data = <<>>
           THEN /\ hpc' = "done"
                /\ UNCHANGED <<resp, hfile>>
           ELSE /\ resp' = [resp EXCEPT !.body = @ \o data]
                /\ hfile' = [hfile EXCEPT !.pos = @ + Len(data),
                                          !.remaining = @ - Len(data)]
                /\ hpc' = IF hfile.remaining - Len(data) > 0 THEN "stream" ELSE "done"
    /\ UNCHANGED <<fs, ffmpeg_path, req, opened, proc, pipeVars, remuxVars>>

\* wfile.write raises BrokenPipeError, ConnectionResetError or
\* ConnectionAbortedError: the client went away, and _stream_file passes
_stream_file_broken ==
    /\ hpc = "stream"
    /\ resp' = [resp EXCEPT !.aborted = TRUE]
    /\ hpc' = "done"
    /\ UNCHANGED <<fs, ffmpeg_path, req, hfile, opened, proc, pipeVars, remuxVars>>

\* _handle_video_stream_audio down to subprocess.Popen
_handle_video_stream_audio ==
    /\ Routed("video")
    /\ AudioSelected(req)
    /\ IF ~ffmpeg_path
       THEN Respond(send_error(503, head_only))
       ELSE IF ~InsideRoot(full_path)
       THEN Respond(send_error(403, head_only))
       ELSE IF ~Exists(full_path) \/ ~IsFile(full_path)
       THEN Respond(send_error(404, head_only))
       ELSE /\ resp' = [NoResp EXCEPT !.status = 200, !.cors = TRUE,
                                      !.ctype = "video/mp4", !.cache_control = TRUE]
            /\ IF head_only
               THEN hpc' = "done" /\ UNCHANGED <<proc, opened>>
               ELSE \/ \* Popen started the child, which reads the file
                       /\ proc' = "running"
                       /\ opened' = opened \cup {full_path}
                       /\ hpc' = "remux"
                    \/ \* Popen raised: except Exception, then finally with proc None
                       /\ hpc' = "done"
                       /\ UNCHANGED <<proc, opened>>
            /\ UNCHANGED <<fs, ffmpeg_path, req, hfile, pipeVars, remuxVars>>

\* proc.stdout.read gave a block and wfile.write sent it
_remux_chunk ==
    /\ hpc = "remux"
    /\ Len(resp.body) < MaxChunks
    /\ resp' = [resp EXCEPT !.body = Append(@, 0)]
    /\ UNCHANGED <<fs, ffmpeg_path, req, hpc, hfile, opened, proc, pipeVars, remuxVars>>

\* the loop is left (end of the child's output, a broken connection, any
\* other error) and the finally clause runs: proc.poll(), proc.terminate()
_remux_leave ==
    /\ hpc = "remux"
    /\ \E running \in BOOLEAN :
          proc' = IF running THEN "terminated" ELSE "exited"
    /\ hpc' = "done"
    /\ UNCHANGED <<fs, ffmpeg_path, req, resp, hfile, opened, pipeVars, remuxVars>>

\* the handler returns: the handler object of the request is dropped, and with
\* it what it held
_finish ==
    /\ hpc = "done"
    /\ hpc' = "idle"
    /\ req' = NoReq
    /\ resp' = NoResp
    /\ hfile' = NoFile
    /\ opened' = {}
    /\ proc' = "none"
    /\ hist' = [hist EXCEPT !.twin = NoTwin]
    /\ UNCHANGED <<fs, ffmpeg_path, ffprobe_path, wpc, lists, task, converting_now,
                   stop_event, video_list, videos, remuxVars>>

\* the handler of a GET returns, and the client sends the same request again
\* as a HEAD, keeping the status and the headers it was answered
client_repeats_as_head ==
    /\ hpc = "done"
    /\ req.method = "GET"
    /\ hist' = [hist EXCEPT !.twin = [asked |-> TRUE, headers |-> Headers(resp)]]
    /\ req' = [req EXCEPT !.method = "HEAD"]
    /\ resp' = NoResp
    /\ hfile' = NoFile
    /\ opened' = {}
    /\ proc' = "none"
    /\ hpc' = "route"
    /\ UNCHANGED <<fs, ffmpeg_path, ffprobe_path, wpc, lists, task, converting_now,
                   stop_event, video_list, videos, remuxVars>>

\* ---- the streaming part of _handle_video_stream_audio, a thread per request

\* the handler threads that serve live-remux requests at the same time
Handlers == {"t1", "t2"}

MaxChildren == 2

\* a handler thread outside a request; proc 0 is None, cause is how the
\* streaming loop was left
IdleHandler == [pc |-> "idle", proc |-> 0, sent |-> 0, cause |-> "none"]

NoRemux == [h \in Handlers |-> IdleHandler]

\* proc.poll() is None
Polls(c) == children[c].status = "running"

\* lines 987-996: the 200 and its headers are sent for a GET, proc = None
_remux_begin(h) ==
    /\ remux[h].pc = "idle"
    /\ Len(children) < MaxChildren
    /\ remux' = [remux EXCEPT ![h] = [IdleHandler EXCEPT !.pc = "popen"]]
    /\ UNCHANGED <<fs, httpVars, ffmpeg_path, pipeVars, children>>

\* line 998: Popen starts the child, or raises
_remux_popen(h) ==
    /\ remux[h].pc = "popen"
    /\ \/ /\ children' = Append(children, [parent |-> h, status |-> "running",
                                           signalled |-> {}])
          /\ remux' = [remux EXCEPT ![h].proc = Len(children) + 1, ![h].pc = "loop"]
       \/ /\ remux' = [remux EXCEPT ![h].pc = "finally", ![h].cause = "popen_failed"]
          /\ UNCHANGED children
    /\ UNCHANGED <<fs, httpVars, ffmpeg_path, pipeVars>>

\* lines 999-1007: one turn of the loop; a block is read and written, or the
\* child's output ends, or the write meets a closed connection or another error
_remux_loop(h) ==
    /\ remux[h].pc = "loop"
    /\ \/ /\ remux[h].sent < MaxChunks
          /\ remux' = [remux EXCEPT ![h].sent = @ + 1]
       \/ \E cause \in {"eof", "disconnected", "error"} :
             remux' = [remux EXCEPT ![h].pc = "finally", ![h].cause = cause]
    /\ UNCHANGED <<fs, httpVars, ffmpeg_path, pipeVars, children>>

\* a finally clause that terminates every child still running
_remux_finally_all(h) ==
    /\ remux[h].pc = "finally"
    /\ children' = [c \in 1..Len(children) |->
                      IF Polls(c) THEN [children[c] EXCEPT !.signalled = @ \cup {h}]
                      ELSE children[c]]
    /\ remux' = [remux EXCEPT ![h].pc = "returned"]
    /\ UNCHANGED <<fs, httpVars, ffmpeg_path, pipeVars>>

\* lines 1008-1011: if proc and proc.poll() is None: proc.terminate()
_remux_finally(h) ==
    /\ remux[h].pc = "finally"
    /\ LET p == remux[h].proc
       IN  children' = IF p # 0 /\ Polls(p)
                       THEN [children EXCEPT ![p].signalled = @ \cup {h}]
                       ELSE children
    /\ remux' = [remux EXCEPT ![h].pc = "returned"]
    /\ UNCHANGED <<fs, httpVars, ffmpeg_path, pipeVars>>

\* the handler has returned; its thread takes no further request before the
\* locals are gone
_remux_return(h) ==
    /\ remux[h].pc = "returned"
    /\ remux' = [remux EXCEPT ![h] = IdleHandler]
    /\ UNCHANGED <<fs, httpVars, ffmpeg_path, pipeVars, children>>

\* a child transcoder ends: its input is read to the end, its pipe is closed,
\* or it received the terminate signal
child_exits(c) ==
    /\ children[c].status = "running"
    /\ children' = [children EXCEPT ![c].status = "exited"]
    /\ UNCHANGED <<fs, httpVars, ffmpeg_path, pipeVars, remux>>

\* the requests of the model
Methods == {"GET", "HEAD", "OPTIONS"}

UrlPaths ==
    { <<"/", "api", "/", "videos">>,
      <<"/", "api", "/", "health">>,
      <<"/", "favicon">>,
      <<"/", "video", "/", "a", ".", "mp4">>,
      <<"/", "video", "/", "e", ".", "mp4">>,
      <<"/", "video", "/", "b", ".", "mp4">>,
      <<"/", "video", "/">>,
      <<"/", "video", "/", ".", ".", "/", "v", "/", "a", ".", "mp4">>,
      <<"/", "video", "/", ".", ".", "/", "v", "2", "/", "s", ".", "mp4">>,
      <<"/", "video", "/", ".", ".", "/", "etc", "/", "p">>,
      <<"/", "video", "/", "/", "etc", "/", "p">>,
      <<"/", "subs", "/", "a", ".", "eng", ".", "vtt">>,
      <<"/", "subs", "/", "a", ".", "mp4">>,
      <<"/", "subs", "/", "a", ".", "rum", ".", "vtt">>,
      <<"/", "subs", "/", ".", ".", "/", "v", "2", "/", "s", ".", "vtt">>,
      <<"/", "subs", "/", ".", ".", "/", "etc", "/", "p", ".", "vtt">> }

Num(n) == IF n < 10 THEN <<Digits[n + 1]>>
          ELSE <<Digits[(n \div 10) + 1], Digits[(n % 10) + 1]>>

RangeHeaders ==
    { <<"bytes=">> \o Num(s) \o <<"-">> \o Num(e) : s \in 0..MaxOff, e \in 0..MaxOff }
    \cup { <<"bytes=">> \o Num(s) \o <<"-">> : s \in 0..MaxOff }
    \cup { <<"bytes=", "0", "2", "-", "1", "0">>,
           <<"bytes=", "-", "3">>,
           <<"items=", "0", "-", "1">>,
           <<"bytes=", "0", "-", "1", ",", "3", "-", "4">>,
           <<"bytes=", "1", "-", "3", "x">>,
           <<"bytes=", "x">>,
           <<>> }

AudioParams == { <<"0">>, <<"1">>, <<"x">> }

Requests ==
    { [method |-> m, path |-> p, audio_present |-> FALSE, audio |-> <<>>,
       range_present |-> FALSE, range |-> <<>>] : m \in Methods, p \in UrlPaths }
    \cup
    { [method |-> m, path |-> p, audio_present |-> FALSE, audio |-> <<>>,
       range_present |-> TRUE, range |-> h] :
         m \in {"GET", "HEAD"}, p \in UrlPaths, h \in RangeHeaders }
    \cup
    { [method |-> m, path |-> p, audio_present |-> TRUE, audio |-> a,
       range_present |-> rp, range |-> IF rp THEN <<"bytes=", "1", "-", "2">> ELSE <<>>] :
         m \in {"GET", "HEAD"}, p \in UrlPaths, a \in AudioParams, rp \in BOOLEAN }

\* a tree to serve: the watched root /v, its sibling /v2 and /etc beside them
HttpDisk ==
    LET f(d) == [data |-> d, media |-> NoMedia]
    IN  (<<"/", "v", "/", "a", ".", "mp4">> :> f(<<11, 12, 13, 14, 15>>))
        @@ (<<"/", "v", "/", "e", ".", "mp4">> :> f(<<>>))
        @@ (<<"/", "v", "/", "a", ".", "eng", ".", "vtt">> :> f(<<21, 22, 23>>))
        @@ (<<"/", "v", "2", "/", "s", ".", "mp4">> :> f(<<31, 32, 33, 34>>))
        @@ (<<"/", "v", "2", "/", "s", ".", "vtt">> :> f(<<41, 42>>))
        @@ (<<"/", "etc", "/", "p">> :> f(<<51>>))
        @@ (<<"/", "etc", "/", "p", ".", "vtt">> :> f(<<61>>))

----------------------------------------------------------------------------
(* Media files, the metadata probe and the transcoder *)

\* AutoConverter.MAX_BITRATE, and TARGET_BITRATE "3M" and "-b:a 192k" in bits/s
MAX_BITRATE == 4000000
TARGET_BITRATE == 3000000
AUDIO_BITRATE == 192000

\* safe_title[:10]
TitleCut == 10

CONVERTIBLE == { <<".", "mkv">>, <<".", "avi">>, <<".", "mov">> }

supported_extensions ==
    { <<".", "mp4">>, <<".", "mkv">>, <<".", "avi">>, <<".", "mov">>, <<".", "webm">> }

browser_playable == { <<".", "mp4">>, <<".", "webm">> }

text_codecs == {"srt", "subrip", "ass", "ssa", "mov_text", "webvtt"}

\* the ASCII codes of two box types
Moov == <<109, 111, 111, 118>>
Mdat == <<109, 100, 97, 116>>

\* the bytes of an .mp4 of two boxes, an 8-byte moov and a 9-byte mdat whose one
\* byte of payload is b, in either order
Mp4Data(moov_first, b) ==
    LET moov == <<0, 0, 0, 8>> \o Moov
        mdat == <<0, 0, 0, 9>> \o Mdat \o <<b>>
    IN  IF moov_first THEN moov \o mdat ELSE mdat \o moov

\* the byte that tells one recording from another: the last byte of the data
Payload(f) == IF f.data = <<>> THEN 0 ELSE f.data[Len(f.data)]

\* a partly written output
PartialFile == [data |-> <<>>, media |-> NoMedia]

\* what "-map 0:v:0 -map 0:a -c:a aac -movflags +faststart" makes of a source:
\* the metadata first, every audio stream kept, no subtitle stream
ConvertOutput(f) ==
    [data |-> Mp4Data(TRUE, Payload(f)),
     media |-> [bitrate |-> f.media.bitrate, subs |-> <<>>, audio |-> f.media.audio]]

\* what "-c copy -movflags +faststart" makes of an .mp4
FaststartOutput(f) == [data |-> Mp4Data(TRUE, Payload(f)), media |-> f.media]

\* what "-c:v libx264 -b:v 3M -c:a aac -b:a 192k -movflags +faststart" makes of an
\* .mp4: the video at the target bitrate and the audio at 192k
CompressOutput(f) ==
    [data |-> Mp4Data(TRUE, Payload(f)),
     media |-> [f.media EXCEPT !.bitrate = TARGET_BITRATE + AUDIO_BITRATE]]

\* what "-map 0:<index> -c:s webvtt" writes: the text of stream index of f
VttOutput(f, index) == [data |-> <<87, 69, 66, 86, 84, 84, Payload(f), index>>,
                        media |-> NoMedia]

\* int.from_bytes(b, "big")
RECURSIVE FromBytes(_)
FromBytes(b) ==
    IF b = <<>> THEN 0 ELSE 256 * FromBytes(SubSeq(b, 1, Len(b) - 1)) + b[Len(b)]

\* f.read(n) at position pos
ReadAt(data, pos, n) == SubSeq(data, pos + 1, Min(pos + n, Len(data)))

\* the loop of _needs_faststart from position pos; seen holds the positions a
\* header was read at.  The reader is deterministic, so reaching a position
\* again means it never returns: "hang".
RECURSIVE BoxLoop(_, _, _)
BoxLoop(data, pos, seen) ==
    LET header    == ReadAt(data, pos, 8)
        size      == FromBytes(SubSeq(header, 1, 4))
        atom_type == SubSeq(header, 5, 8)
        ext       == ReadAt(data, pos + 8, 8)
        skip(to)  == IF to < 0 THEN "false"     \* seek raises OSError
                     ELSE BoxLoop(data, to, seen \cup {pos})
    IN  IF pos \in seen THEN "hang"
        ELSE IF Len(header) < 8 THEN "false"
        ELSE IF atom_type = Moov THEN "false"
        ELSE IF atom_type = Mdat THEN "true"
        ELSE IF size = 1
             THEN IF Len(ext) < 8 THEN "false"
                  ELSE skip(pos + 16 + FromBytes(ext) - 16)
        ELSE IF size < 8 THEN "false"
        ELSE skip(pos + 8 + size - 8)

\* a reader that looks at the first box only
FirstBoxOnly(f) ==
    LET header == ReadAt(f.data, 0, 8)
    IN  IF Len(header) = 8 /\ SubSeq(header, 5, 8) = Mdat THEN "true" ELSE "false"

\* AutoConverter._needs_faststart: "true", "false", or "hang"
_needs_faststart(f) == BoxLoop(f.data, 0, {})

----------------------------------------------------------------------------
(* The Task Classifier: the four finders of AutoConverter *)

\* video_folder.rglob("*") restricted to files
FilesUnder(f) == {p \in DOMAIN f : StartsWith(p, video_folder \o <<"/">>)}

\* file_path.name.startswith("_")
IsTempName(p) == PathName(p) # <<>> /\ PathName(p)[1] = "_"

\* Path.exists() in filesystem f
ExistsIn(f, p) ==
    p \in DOMAIN f \/ p = video_folder \/ \E q \in DOMAIN f : StartsWith(q, p \o <<"/">>)

\* a finder that remembers what the pass before it proposed
_find_unconverted_once(f) ==
    Sorted({p \in FilesUnder(f) :
              /\ PathSuffix(p) \in CONVERTIBLE
              /\ <<".", "bak">> \notin PathSuffixes(p)
              /\ ~ExistsIn(f, WithSuffix(p, <<".", "mp4">>))
              /\ p \notin SeqToSet(hist.cls_lists.convert)})

_find_unconverted(f) ==
    Sorted({p \in FilesUnder(f) :
              /\ PathSuffix(p) \in CONVERTIBLE
              /\ <<".", "bak">> \notin PathSuffixes(p)
              /\ ~ExistsIn(f, WithSuffix(p, <<".", "mp4">>))})

\* the .mp4 files the two .mp4 finders look at: rglob("*.mp4"), files, no "_" name
Mp4Candidates(f) ==
    {p \in FilesUnder(f) : EndsWith(PathName(p), <<".", "mp4">>) /\ ~IsTempName(p)}

\* the files whose Box Reader never returns
HangingFiles(f) == {p \in Mp4Candidates(f) : _needs_faststart(f[p]) = "hang"}

_find_needs_faststart(f) ==
    Sorted({p \in Mp4Candidates(f) : _needs_faststart(f[p]) = "true"})

\* AutoConverter._get_video_bitrate: 0 when the probe is missing, fails, times
\* out or prints no number.  failed holds the files the probe fails on.
_get_video_bitrate(f, p, failed) ==
    IF ~ffprobe_path \/ p \in failed \/ p \notin DOMAIN f THEN 0
    ELSE f[p].media.bitrate

\* a finder that also lists a file at the ceiling
_find_at_ceiling(f, failed) ==
    Sorted({p \in Mp4Candidates(f) : _get_video_bitrate(f, p, failed) >= MAX_BITRATE})

_find_needs_compression(f, failed) ==
    Sorted({p \in Mp4Candidates(f) : _get_video_bitrate(f, p, failed) > MAX_BITRATE})

\* AutoConverter._get_subtitle_streams: the text streams, "und" for a stream
\* without a language tag; [] when the probe is missing or fails
_get_subtitle_streams(f, p, failed) ==
    IF ~ffprobe_path \/ p \in failed \/ p \notin DOMAIN f THEN <<>>
    ELSE LET text == SelectSeq(f[p].media.subs, LAMBDA s : s.codec \in text_codecs)
         IN  [i \in 1..Len(text) |->
                [index |-> text[i].index, codec |-> text[i].codec,
                 lang  |-> IF text[i].lang = <<>> THEN <<"und">> ELSE text[i].lang,
                 title |-> text[i].title]]

\* glob(stem + ".*.vtt") in the directory of base_path
TaggedSidecars(f, base_path) ==
    LET stem == PathStem(base_path)
    IN  {q \in DOMAIN f :
           /\ PathParent(q) = PathParent(base_path)
           /\ StartsWith(PathName(q), stem \o <<".">>)
           /\ EndsWith(PathName(q), <<".", "vtt">>)
           /\ Len(PathName(q)) >= Len(stem) + 3}

\* vtt.stem.rsplit(".", 1): the part after the last dot, none when there is no dot
LangTag(q) ==
    LET st == PathStem(q)
        i  == RFind(st, ".")
    IN  IF i = 0 THEN {} ELSE {Drop(st, i)}

\* _existing_langs of _find_needs_subtitle_extract
_existing_langs(f, base_path) ==
    UNION {LangTag(q) : q \in TaggedSidecars(f, base_path)}
    \cup (IF ExistsIn(f, WithSuffix(base_path, <<".", "vtt">>))
          THEN {<<"_", "old">>} ELSE {})

\* re.sub(r"[^\w]", "", title)[:10]
safe_title(title) ==
    LET kept == SelectSeq(title, LAMBDA c : c # "!")
    IN  SubSeq(kept, 1, Min(TitleCut, Len(kept)))

\* the suffix of the sidecar of streams[i]: the language, with the title
\* appended when another stream of the list has the same language
SidecarSuffix(streams, i) ==
    LET lang  == streams[i].lang
        title == streams[i].title
    IN  IF /\ title # <<>>
           /\ \E j \in 1..Len(streams) : j # i /\ streams[j].lang = lang
           /\ safe_title(title) # <<>>
        THEN lang \o <<"_">> \o safe_title(title)
        ELSE lang

\* base_path.with_suffix(f".{suffix}.vtt")
SidecarPath(base_path, streams, i) ==
    WithSuffix(base_path, <<".">> \o SidecarSuffix(streams, i) \o <<".", "vtt">>)

\* [s for s in embedded if s["lang"] not in existing]
MissingStreams(embedded, existing) ==
    SelectSeq(embedded, LAMBDA s : s.lang \notin existing)

NoPath == <<>>

SubTask(sub_type, video_path, srt_path, streams, base_path) ==
    [sub_type |-> sub_type, video_path |-> video_path, srt_path |-> srt_path,
     streams |-> streams, base_path |-> base_path]

\* the entry of _find_needs_subtitle_extract for one video file, if any
SubsEntry(f, p, failed) ==
    LET srt_path == WithSuffix(p, <<".", "srt">>)
        vtt_path == WithSuffix(p, <<".", "vtt">>)
        embedded == _get_subtitle_streams(f, p, failed)
        missing  == MissingStreams(embedded, _existing_langs(f, p))
    IN  IF ExistsIn(f, srt_path) /\ ~ExistsIn(f, vtt_path)
        THEN <<SubTask("srt", p, srt_path, <<>>, p)>>
        ELSE IF ffprobe_path /\ missing # <<>>
        THEN <<SubTask("embedded_multi", p, NoPath, missing, p)>>
        ELSE <<>>

\* the entry for one .mkv.bak file, if any
BakEntry(f, bak_path, failed) ==
    LET n        == PathName(bak_path)
        mp4_path == WithName(bak_path, SubSeq(n, 1, Len(n) - 4) \o <<".", "mp4">>)
        embedded == _get_subtitle_streams(f, bak_path, failed)
        missing  == MissingStreams(embedded, _existing_langs(f, mp4_path))
    IN  IF ExistsIn(f, mp4_path) /\ missing # <<>>
        THEN <<SubTask("embedded_multi", bak_path, NoPath, missing, mp4_path)>>
        ELSE <<>>

RECURSIVE FlatMap(_, _)
FlatMap(Op(_), s) == IF s = <<>> THEN <<>> ELSE Op(Head(s)) \o FlatMap(Op, Tail(s))

_find_needs_subtitle_extract(f, failed) ==
    LET videos_of(ext) ==
            Sorted({p \in FilesUnder(f) :
                      /\ EndsWith(PathName(p), ext)
                      /\ ~Contains(p, <<".", "bak">>)
                      /\ ~IsTempName(p)})
        entry(p) == SubsEntry(f, p, failed)
        bak(p)   == BakEntry(f, p, failed)
        baks     == Sorted({p \in FilesUnder(f) :
                              EndsWith(PathName(p), <<".", "mkv", ".", "bak">>)})
    IN  FlatMap(entry, videos_of(<<".", "mp4">>))
        \o FlatMap(entry, videos_of(<<".", "mkv">>))
        \o FlatMap(entry, videos_of(<<".", "avi">>))
        \o (IF ffprobe_path THEN FlatMap(bak, baks) ELSE <<>>)

----------------------------------------------------------------------------
(* The Catalog Scanner: VideoScanner.scan *)

\* file_path.relative_to(self.video_folder)
RelativeTo(p) == Drop(p, Len(video_folder) + 1)

\* the subtitle entry of one tagged sidecar: lang_code is the tag up to its
\* first "_", the label is made of the language and of what follows the "_"
SubtitleEntry(q) ==
    LET tag == CHOOSE t \in LangTag(q) : TRUE
        i   == Find(tag, "_")
    IN  [lang  |-> IF i = 0 THEN tag ELSE SubSeq(tag, 1, i - 1),
         label |-> IF i = 0 THEN <<>> ELSE Drop(tag, i),
         path  |-> RelativeTo(q)]

\* subs_list of scan for one video
SubtitlesOf(f, p) ==
    LET tagged == Sorted({q \in TaggedSidecars(f, p) : LangTag(q) # {}})
        legacy_vtt == WithSuffix(p, <<".", "vtt">>)
    IN  IF tagged # <<>> THEN [i \in 1..Len(tagged) |-> SubtitleEntry(tagged[i])]
        ELSE IF ExistsIn(f, legacy_vtt)
        THEN <<[lang |-> <<"en">>, label |-> <<"Subtitles">>,
                path |-> RelativeTo(legacy_vtt)]>>
        ELSE <<>>

\* VideoScanner._get_audio_tracks: the number of audio streams the probe lists
_get_audio_tracks(f, p) == IF ~ffprobe_path THEN 0 ELSE f[p].media.audio

\* the dict scan builds for one file; subtitles <<>> and audio_tracks 0 are None
CatalogEntry(f, p) ==
    LET ext == PathSuffix(p)
        rel == RelativeTo(p)
        audio_tracks == IF ext = <<".", "mp4">> THEN _get_audio_tracks(f, p) ELSE 0
    IN  [name |-> PathStem(p), filename |-> PathName(p), path |-> rel,
         size |-> Len(f[p].data), extension |-> ext,
         playable |-> ext \in browser_playable,
         folder |-> IF Find(rel, "/") = 0 THEN <<>> ELSE SubSeq(rel, 1, Find(rel, "/") - 1),
         subtitles |-> SubtitlesOf(f, p),
         audio_tracks |-> IF audio_tracks > 1 THEN audio_tracks ELSE 0]

\* a scan without its second pass: every supported file is listed
ListedFilesAll(f) ==
    {p \in FilesUnder(f) : PathSuffix(p) \in supported_extensions /\ ~IsTempName(p)}

\* the files scan lists: supported extension, no "_" name, and no .mkv, .avi or
\* .mov whose (parent, stem) has an .mp4
ListedFiles(f) ==
    LET all_files == {p \in FilesUnder(f) :
                        PathSuffix(p) \in supported_extensions /\ ~IsTempName(p)}
        mp4_stems == {<<PathParent(q), PathStem(q)>> :
                        q \in {x \in all_files : PathSuffix(x) = <<".", "mp4">>}}
    IN  {p \in all_files :
           ~(PathSuffix(p) \in CONVERTIBLE /\ <<PathParent(p), PathStem(p)>> \in mp4_stems)}

scan(f) ==
    LET listed == Sorted(ListedFiles(f))
    IN  [i \in 1..Len(listed) |-> CatalogEntry(f, listed[i])]

----------------------------------------------------------------------------
(* The Pipeline Worker: AutoConverter._run and the four task handlers *)

\* the filesystem without a file
NoFiles == [p \in {} |-> PartialFile]

NoTask == [kind |-> "none", sub_type |-> "", src |-> NoPath, temp |-> NoPath,
           out |-> NoPath, srt |-> NoPath, base |-> NoPath, streams |-> <<>>,
           i |-> 0, result |-> "none", phase |-> "returned", fs0 |-> NoFiles,
           renamed |-> FALSE, notified |-> FALSE, all_ok |-> TRUE,
           raised |-> FALSE, written |-> FALSE]

NoLists == [convert |-> <<>>, fix |-> <<>>, compress |-> <<>>, subs |-> <<>>]

\* the boxes a file was written from, and the bytes cut off its end
NoBox == [boxes |-> <<>>, cut |-> 0]

NoHist == [invoked |-> {}, direct |-> {}, done |-> {}, reproduced |-> {},
           box |-> NoBox, started |-> {}, changes |-> 0, after_stop |-> 0, batch |-> {}, twin |-> NoTwin,
           mtime |-> <<>>, audio_cache |-> <<>>, last_probe |-> <<>>,
           cls_n |-> 0, cls_fs |-> NoFiles, cls_failed |-> {}, cls_lists |-> NoLists,
           prev_fs |-> NoFiles, same_failed |-> FALSE, prev_lists |-> NoLists,
           clock |-> 0, pub |-> 0, scanned |-> [stamp |-> 0, list |-> <<>>]]

\* how a task is told from the others of its cycle
TaskId(kind, sub_type, src) == [kind |-> kind, sub_type |-> sub_type, src |-> src]

\* the tasks a set of lists holds
TaskIds(l) ==
    {TaskId("convert", "", l.convert[i]) : i \in 1..Len(l.convert)}
    \cup {TaskId("fix", "", l.fix[i]) : i \in 1..Len(l.fix)}
    \cup {TaskId("compress", "", l.compress[i]) : i \in 1..Len(l.compress)}
    \cup {TaskId("subs", l.subs[i].sub_type, l.subs[i].video_path) : i \in 1..Len(l.subs)}

\* the ways one transcoder invocation (subprocess.run with a timeout) can end
Outcomes == {"zero_written", "zero_missing", "nonzero_partial", "nonzero_none",
             "timeout_partial", "exception"}

ResultOf(o) ==
    CASE o \in {"zero_written", "zero_missing"}     -> "zero"
      [] o \in {"nonzero_partial", "nonzero_none"}  -> "nonzero"
      [] o = "timeout_partial"                      -> "timeout"
      [] OTHER                                      -> "exception"

\* the filesystem after an invocation told to write good to path out
AfterInvoke(f, out, good, o) ==
    CASE o = "zero_written"                             -> FsWrite(f, out, good)
      [] o = "zero_missing"                             -> FsUnlink(f, out)
      [] o \in {"nonzero_partial", "timeout_partial"}   -> FsWrite(f, out, PartialFile)
      [] OTHER                                          -> f

\* the outcomes open to an invocation that reads src: without the source the
\* transcoder cannot end well
OutcomesFor(src) == IF IsFile(src) THEN Outcomes ELSE Outcomes \ {"zero_written"}

\* a success test that does not look at the exit code
OutputPresent(t) == IsFile(t.temp) /\ ~t.raised

\* result.returncode == 0 and temp_path.exists(), and no step of the commit raised
Succeeded(t) == t.result = "zero" /\ IsFile(t.temp) /\ ~t.raised

\* the files one classification pass probes, those left out for which a
\* failed probe (bitrate 0, no streams) answers what a working one answers
ProbeTargets(f) == {p \in FilesUnder(f) :
                      /\ ~IsTempName(p)
                      /\ \/ EndsWith(PathName(p), <<".", "mp4">>)
                         \/ EndsWith(PathName(p), <<".", "mkv">>)
                         \/ EndsWith(PathName(p), <<".", "avi">>)
                         \/ EndsWith(PathName(p), <<".", "mkv", ".", "bak">>)
                      /\ \/ f[p].media.bitrate > MAX_BITRATE
                         \/ \E i \in 1..Len(f[p].media.subs) :
                               f[p].media.subs[i].codec \in text_codecs}

\* the four finders, with the probe failing on the files of failed
Classify(f, failed) ==
    [convert  |-> _find_unconverted(f),
     fix      |-> _find_needs_faststart(f),
     compress |-> _find_needs_compression(f, failed),
     subs     |-> _find_needs_subtitle_extract(f, failed)]

\* a callback that would add the entries of its scan to the published list
rescan_in_place == video_list' = video_list \o scan(fs)

\* rescan_and_update of main(): a scan, published by assigning the reference
rescan_and_update == video_list' = scan(fs)

\* lines 152-159 of _run: a classification pass, then the wait or the batch
_run_classify ==
    /\ wpc = "loop"
    /\ ~stop_event
    /\ \E failed \in SUBSET ProbeTargets(fs) :
         LET l == Classify(fs, failed)
         IN  IF HangingFiles(fs) # {}
             THEN \* the Box Reader never returns: the pass does not end
                  /\ wpc' = "hung"
                  /\ UNCHANGED <<lists, hist>>
             ELSE /\ lists' = l
                  /\ wpc' = IF l = NoLists THEN "wait" ELSE "for_convert"
                  /\ hist' = [hist EXCEPT !.cls_n = Min(@ + 1, 2),
                                          !.prev_fs = hist.cls_fs,
                                          !.same_failed = (failed = hist.cls_failed),
                                          !.prev_lists = hist.cls_lists,
                                          !.cls_fs = fs,
                                          !.cls_failed = failed,
                                          !.cls_lists = l,
                                          !.reproduced = hist.done \cap TaskIds(l),
                                          !.done = {},
                                          !.started = {}]
    /\ UNCHANGED <<fs, httpVars, remuxVars, ffmpeg_path, ffprobe_path, task, converting_now,
                   stop_event, video_list, videos>>

\* the while condition of _run with the stop flag set
_run_exit ==
    /\ wpc = "loop"
    /\ stop_event
    /\ wpc' = "exited"
    /\ UNCHANGED <<fs, httpVars, remuxVars, ffmpeg_path, ffprobe_path, lists, task, converting_now,
                   stop_event, video_list, videos, hist>>

\* self._stop_event.wait(timeout=30), at line 158 and at line 182
_run_wait ==
    /\ wpc = "wait"
    /\ wpc' = "loop"
    /\ UNCHANGED <<fs, httpVars, remuxVars, ffmpeg_path, ffprobe_path, lists, task, converting_now,
                   stop_event, video_list, videos, hist>>

\* a for loop of _run ends: its list is exhausted, or the stop flag breaks it
ForEnds(list) == list = <<>> \/ stop_event

\* the for loops of _run with LayoutFix and BitrateCompress exchanged
NextForSwapped(at) == CASE at = "for_convert"  -> "for_compress"
                        [] at = "for_compress" -> "for_fix"
                        [] at = "for_fix"      -> "for_subs"
                        [] OTHER               -> "wait"

NextFor(at) == CASE at = "for_convert"  -> "for_fix"
                 [] at = "for_fix"      -> "for_compress"
                 [] at = "for_compress" -> "for_subs"
                 [] OTHER               -> "wait"

ListAt(at) == CASE at = "for_convert"  -> lists.convert
                [] at = "for_fix"      -> lists.fix
                [] at = "for_compress" -> lists.compress
                [] OTHER               -> lists.subs

_run_for_ends ==
    /\ wpc \in {"for_convert", "for_fix", "for_compress", "for_subs"}
    /\ ForEnds(ListAt(wpc))
    /\ wpc' = NextFor(wpc)
    /\ UNCHANGED <<fs, httpVars, remuxVars, ffmpeg_path, ffprobe_path, lists, task, converting_now,
                   stop_event, video_list, videos, hist>>

\* the task record at the start of a handler
StartTask(kind, src, temp, out) ==
    [NoTask EXCEPT !.kind = kind, !.src = src, !.temp = temp, !.out = out,
                   !.phase = "run", !.fs0 = fs]

\* a handler is called for a task of the running cycle
Called(kind, sub_type, src) ==
    hist' = [hist EXCEPT !.started = @ \cup {TaskId(kind, sub_type, src)}]

\* a handler that returns without its finally clause
ReturnBusy(to) ==
    /\ converting_now' = converting_now
    /\ task' = [task EXCEPT !.phase = "returned"]
    /\ wpc' = to
    /\ hist' = hist
    /\ UNCHANGED <<fs, httpVars, remuxVars, ffmpeg_path, ffprobe_path, lists, stop_event,
                   video_list, videos>>

\* the finally clause of a handler: converting_now = None, and the handler returns
Return(to) ==
    /\ converting_now' = <<>>
    /\ task' = [task EXCEPT !.phase = "returned"]
    /\ wpc' = to
    /\ hist' = IF (task.kind = "subs" /\ task.all_ok) \/ (task.kind # "subs" /\ task.renamed)
               THEN [hist EXCEPT !.done = @ \cup {TaskId(task.kind, task.sub_type, task.src)}]
               ELSE hist
    /\ UNCHANGED <<fs, httpVars, remuxVars, ffmpeg_path, ffprobe_path, lists, stop_event,
                   video_list, videos>>

\* the except clauses and the else branch of a handler: the temp output is
\* deleted if it exists
Cleanup(to) ==
    /\ fs' = IF IsFile(task.temp) THEN FsUnlink(fs, task.temp) ELSE fs
    /\ wpc' = to
    /\ UNCHANGED <<httpVars, remuxVars, ffmpeg_path, ffprobe_path, lists, task, converting_now,
                   stop_event, video_list, videos, hist>>

\* if self.on_conversion_done: self.on_conversion_done()
Notify(to) ==
    /\ rescan_and_update
    /\ task' = [task EXCEPT !.notified = TRUE]
    /\ wpc' = to
    /\ UNCHANGED <<fs, httpVars, remuxVars, ffmpeg_path, ffprobe_path, lists, converting_now,
                   stop_event, videos, hist>>

\* the invocations of the transcoder begun with the stop flag already set (two
\* stands for two or more)
StartedAfterStop(n) == IF stop_event THEN Min(n + 1, 2) ELSE n

\* subprocess.run(cmd, timeout=...) writing good to the temp output
RunTranscoder(good, to) ==
    /\ \E o \in OutcomesFor(task.src) :
         /\ fs' = AfterInvoke(fs, task.temp, good, o)
         /\ task' = [task EXCEPT !.result = ResultOf(o),
                                 !.written = task.temp \in DOMAIN AfterInvoke(fs, task.temp,
                                                                             good, o)]
    /\ hist' = [hist EXCEPT !.invoked = @ \cup {task.temp},
                            !.after_stop = StartedAfterStop(@)]
    /\ wpc' = to
    /\ UNCHANGED <<httpVars, remuxVars, ffmpeg_path, ffprobe_path, lists, converting_now,
                   stop_event, video_list, videos>>

\* one sidecar of the loop over the streams, in _convert_one (lines 550-578) and
\* in _extract_subtitles (lines 486-526): the sidecar is skipped when it exists;
\* else the transcoder is told to write it under its final name, and what it
\* wrote is deleted again unless it ended with exit code 0
ExtractStream ==
    LET vtt_path == SidecarPath(task.base, task.streams, task.i)
    IN  IF ExistsIn(fs, vtt_path)
        THEN /\ task' = [task EXCEPT !.i = @ + 1]
             /\ UNCHANGED <<fs, hist>>
        ELSE \E o \in OutcomesFor(task.src) :
               /\ fs' = IF o = "zero_written"
                         THEN FsWrite(fs, vtt_path, VttOutput(fs[task.src],
                                                     task.streams[task.i].index))
                         ELSE fs
               /\ task' = [task EXCEPT !.i = @ + 1,
                                       !.all_ok = @ /\ o = "zero_written"]
               /\ hist' = [hist EXCEPT
                             !.invoked = @ \cup {vtt_path},
                             !.after_stop = StartedAfterStop(@),
                             !.direct = @ \cup (IF o = "zero_written"
                                                THEN {vtt_path} ELSE {})]

\* ---- _convert_one

_convert_one_begin ==
    /\ wpc = "for_convert"
    /\ ~ForEnds(lists.convert)
    /\ LET input_path == Head(lists.convert)
       IN  /\ \E failed \in SUBSET {input_path} :
                task' = [StartTask("convert", input_path,
                                   PathParent(input_path)
                                     \o <<"/", "_", "convert", "_", "temp", ".", "mp4">>,
                                   WithSuffix(input_path, <<".", "mp4">>))
                           EXCEPT !.streams = _get_subtitle_streams(fs, input_path, failed),
                                  !.base = input_path, !.i = 1]
           /\ converting_now' = <<"", RelativeTo(input_path)>>
    /\ lists' = [lists EXCEPT !.convert = Tail(@)]
    /\ wpc' = "convert_subs"
    /\ Called("convert", "", Head(lists.convert))
    /\ UNCHANGED <<fs, httpVars, remuxVars, ffmpeg_path, ffprobe_path, stop_event, video_list,
                   videos>>

_convert_one_subs ==
    /\ wpc = "convert_subs"
    /\ task.i <= Len(task.streams)
    /\ ExtractStream
    /\ UNCHANGED <<httpVars, remuxVars, ffmpeg_path, ffprobe_path, wpc, lists, converting_now,
                   stop_event, video_list, videos>>

\* a conversion that may begin while streams are still to be extracted
_convert_one_run_early ==
    /\ wpc = "convert_subs"
    /\ RunTranscoder(IF IsFile(task.src) THEN ConvertOutput(fs[task.src])
                     ELSE PartialFile, "convert_check")

_convert_one_run ==
    /\ wpc = "convert_subs"
    /\ task.i > Len(task.streams)
    /\ RunTranscoder(IF IsFile(task.src) THEN ConvertOutput(fs[task.src])
                     ELSE PartialFile, "convert_check")

\* a commit that also renames the original with a backup suffix, as the batch
\* tool does
ConvertCommitBak(f, temp, out, src) ==
    FsRename(FsRename(f, temp, out), src, src \o <<".", "bak">>)

\* lines 619-620: the only change of a successful _convert_one is the rename
\* of the temp output to the .mp4 name
ConvertCommit(f, temp, out, src) == FsRename(f, temp, out)

\* temp_path.rename(output_path): where the target exists, it is replaced on
\* POSIX and FileExistsError is raised on Windows
_convert_one_rename ==
    /\ wpc = "convert_check"
    /\ Succeeded(task)
    /\ \/ /\ fs' = ConvertCommit(fs, task.temp, task.out, task.src)
          /\ task' = [task EXCEPT !.renamed = TRUE]
          /\ wpc' = "convert_notify"
       \/ /\ IsFile(task.out)
          /\ task' = [task EXCEPT !.raised = TRUE]
          /\ wpc' = "convert_check"
          /\ fs' = fs
    /\ UNCHANGED <<httpVars, remuxVars, ffmpeg_path, ffprobe_path, lists, converting_now,
                   stop_event, video_list, videos, hist>>

_convert_one_notify == wpc = "convert_notify" /\ Notify("convert_finally")

_convert_one_cleanup ==
    /\ wpc = "convert_check"
    /\ ~Succeeded(task)
    /\ Cleanup("convert_finally")

_convert_one_finally == wpc = "convert_finally" /\ Return("for_convert")

\* ---- _fix_faststart

_fix_faststart_begin ==
    /\ wpc = "for_fix"
    /\ ~ForEnds(lists.fix)
    /\ LET mp4_path == Head(lists.fix)
       IN  /\ task' = StartTask("fix", mp4_path,
                                WithName(mp4_path,
                                         <<"_", "faststart", "_", "temp", ".", "mp4">>),
                                mp4_path)
           /\ converting_now' = <<"faststart", RelativeTo(mp4_path)>>
    /\ lists' = [lists EXCEPT !.fix = Tail(@)]
    /\ wpc' = "fix_run"
    /\ Called("fix", "", Head(lists.fix))
    /\ UNCHANGED <<fs, httpVars, remuxVars, ffmpeg_path, ffprobe_path, stop_event, video_list,
                   videos>>

_fix_faststart_run ==
    /\ wpc = "fix_run"
    /\ RunTranscoder(IF IsFile(task.src) THEN FaststartOutput(fs[task.src])
                     ELSE PartialFile, "fix_check")

\* mp4_path.unlink(): FileNotFoundError where the file is gone
InPlaceUnlink(to) ==
    /\ IF IsFile(task.src)
       THEN /\ fs' = FsUnlink(fs, task.src)
            /\ wpc' = to
            /\ task' = task
       ELSE /\ task' = [task EXCEPT !.raised = TRUE]
            /\ UNCHANGED <<fs, wpc>>
    /\ UNCHANGED <<httpVars, remuxVars, ffmpeg_path, ffprobe_path, lists, converting_now,
                   stop_event, video_list, videos, hist>>

\* temp_path.rename(mp4_path)
InPlaceRename(to) ==
    /\ fs' = FsRename(fs, task.temp, task.out)
    /\ task' = [task EXCEPT !.renamed = TRUE]
    /\ wpc' = to
    /\ UNCHANGED <<httpVars, remuxVars, ffmpeg_path, ffprobe_path, lists, converting_now,
                   stop_event, video_list, videos, hist>>

_fix_faststart_unlink ==
    wpc = "fix_check" /\ Succeeded(task) /\ InPlaceUnlink("fix_rename")

_fix_faststart_rename == wpc = "fix_rename" /\ InPlaceRename("fix_notify")

_fix_faststart_notify == wpc = "fix_notify" /\ Notify("fix_finally")

_fix_faststart_cleanup ==
    wpc = "fix_check" /\ ~Succeeded(task) /\ Cleanup("fix_finally")

_fix_faststart_finally == wpc = "fix_finally" /\ Return("for_fix")

\* ---- _compress_video

\* lines 297-303: mp4_path.stat() is outside the try, so a missing file ends
\* the worker thread
_compress_video_begin ==
    /\ wpc = "for_compress"
    /\ ~ForEnds(lists.compress)
    /\ LET mp4_path == Head(lists.compress)
       IN  IF IsFile(mp4_path)
           THEN /\ task' = StartTask("compress", mp4_path,
                                     WithName(mp4_path,
                                              <<"_", "compress", "_", "temp", ".", "mp4">>),
                                     mp4_path)
                /\ converting_now' = <<"compress", RelativeTo(mp4_path)>>
                /\ wpc' = "compress_run"
           ELSE /\ wpc' = "crashed"
                /\ UNCHANGED <<task, converting_now>>
    /\ lists' = [lists EXCEPT !.compress = Tail(@)]
    /\ Called("compress", "", Head(lists.compress))
    /\ UNCHANGED <<fs, httpVars, remuxVars, ffmpeg_path, ffprobe_path, stop_event, video_list,
                   videos>>

_compress_video_run ==
    /\ wpc = "compress_run"
    /\ RunTranscoder(IF IsFile(task.src) THEN CompressOutput(fs[task.src])
                     ELSE PartialFile, "compress_check")

\* lines 325-327: saved = (1 - size_after / size_before) * 100 raises
\* ZeroDivisionError for an empty original, before mp4_path.unlink()
_compress_video_unlink ==
    /\ wpc = "compress_check"
    /\ Succeeded(task)
    /\ IF Len(task.fs0[task.src].data) = 0
       THEN /\ task' = [task EXCEPT !.raised = TRUE]
            /\ UNCHANGED <<fs, httpVars, remuxVars, ffmpeg_path, ffprobe_path, wpc, lists,
                           converting_now, stop_event, video_list, videos, hist>>
       ELSE InPlaceUnlink("compress_rename")

_compress_video_rename == wpc = "compress_rename" /\ InPlaceRename("compress_notify")

_compress_video_notify == wpc = "compress_notify" /\ Notify("compress_finally")

_compress_video_cleanup ==
    wpc = "compress_check" /\ ~Succeeded(task) /\ Cleanup("compress_finally")

_compress_video_finally == wpc = "compress_finally" /\ Return("for_compress")

\* ---- _extract_subtitles

\* AutoConverter._srt_to_vtt: "WEBVTT\n\n", then the text with "," made "."
_srt_to_vtt(f) ==
    [data |-> <<87, 69, 66, 86, 84, 84, 10, 10>>
              \o [i \in 1..Len(f.data) |-> IF f.data[i] = 44 THEN 46 ELSE f.data[i]],
     media |-> NoMedia]

_extract_subtitles_begin ==
    /\ wpc = "for_subs"
    /\ ~ForEnds(lists.subs)
    /\ LET sub_info == Head(lists.subs)
       IN  /\ task' = [StartTask("subs", sub_info.video_path, NoPath,
                                 WithSuffix(sub_info.video_path, <<".", "vtt">>))
                         EXCEPT !.sub_type = sub_info.sub_type,
                                !.srt = sub_info.srt_path,
                                !.streams = sub_info.streams,
                                !.base = sub_info.base_path, !.i = 1]
           /\ wpc' = IF sub_info.sub_type = "srt" THEN "subs_srt" ELSE "subs_streams"
    /\ lists' = [lists EXCEPT !.subs = Tail(@)]
    /\ Called("subs", Head(lists.subs).sub_type, Head(lists.subs).video_path)
    /\ UNCHANGED <<fs, httpVars, remuxVars, ffmpeg_path, ffprobe_path, converting_now, stop_event,
                   video_list, videos>>

\* lines 462-474: the external .srt converted to the legacy <stem>.vtt, or an
\* exception, which is logged
_extract_subtitles_srt ==
    /\ wpc = "subs_srt"
    /\ \E ok \in BOOLEAN :
         IF ok /\ IsFile(task.srt)
         THEN /\ fs' = FsWrite(fs, task.out, _srt_to_vtt(fs[task.srt]))
              /\ task' = task
         ELSE /\ task' = [task EXCEPT !.all_ok = FALSE]
              /\ fs' = fs
    /\ wpc' = "subs_finally"
    /\ UNCHANGED <<httpVars, remuxVars, ffmpeg_path, ffprobe_path, lists, converting_now,
                   stop_event, video_list, videos, hist>>

\* one iteration of the loop of lines 486-526
_extract_subtitles_stream ==
    /\ wpc = "subs_streams"
    /\ task.i <= Len(task.streams)
    /\ IF stop_event
       THEN /\ task' = [task EXCEPT !.i = Len(task.streams) + 1, !.all_ok = FALSE]
            /\ UNCHANGED <<fs, hist>>
       ELSE ExtractStream
    /\ UNCHANGED <<httpVars, remuxVars, ffmpeg_path, ffprobe_path, wpc, lists, converting_now,
                   stop_event, video_list, videos>>

\* the handler returns; it has no call of on_conversion_done
_extract_subtitles_return ==
    /\ \/ wpc = "subs_finally"
       \/ wpc = "subs_streams" /\ task.i > Len(task.streams)
    /\ Return("for_subs")

----------------------------------------------------------------------------
(* main(): the startup, the periodic rescan and the shutdown *)

\* lines 1139-1173: the initial scan, the converter started only if the scan
\* or a startup finder found work, and the catalog published
main_startup ==
    /\ wpc = "main"
    /\ videos' = scan(fs)
    /\ video_list' = scan(fs)
    /\ \E failed \in SUBSET ProbeTargets(fs) :
         LET unconverted     == \E i \in 1..Len(scan(fs)) : ~scan(fs)[i].playable
             needs_faststart == _find_needs_faststart(fs) # <<>>
             needs_compress  == _find_needs_compression(fs, failed) # <<>>
             needs_subs      == _find_needs_subtitle_extract(fs, failed) # <<>>
         IN  wpc' = IF ~ffmpeg_path THEN "no_converter"
                    ELSE IF HangingFiles(fs) # {} THEN "main_hung"
                    ELSE IF unconverted \/ needs_faststart \/ needs_compress \/ needs_subs
                    THEN "loop"
                    ELSE "no_converter"
    /\ UNCHANGED <<fs, httpVars, remuxVars, ffmpeg_path, ffprobe_path, lists, task, converting_now,
                   stop_event, hist>>

\* lines 1243-1249: the periodic rescan publishes a new list only when the
\* lengths differ or a path differs at some position
main_rescan ==
    /\ wpc \notin {"main", "main_hung"}
    /\ ~stop_event
    /\ LET new_videos == scan(fs)
       IN  IF \/ Len(new_videos) # Len(videos)
              \/ \E i \in 1..Min(Len(new_videos), Len(videos)) :
                    new_videos[i].path # videos[i].path
           THEN videos' = new_videos /\ video_list' = new_videos
           ELSE UNCHANGED <<videos, video_list>>
    /\ UNCHANGED <<fs, httpVars, remuxVars, ffmpeg_path, ffprobe_path, wpc, lists, task,
                   converting_now, stop_event, hist>>

\* lines 1252-1254: KeyboardInterrupt ends the main loop; converter.stop()
main_shutdown ==
    /\ wpc \notin {"main", "main_hung"}
    /\ ~stop_event
    /\ stop_event' = TRUE
    /\ UNCHANGED <<fs, httpVars, remuxVars, ffmpeg_path, ffprobe_path, wpc, lists, task,
                   converting_now, video_list, videos, hist>>

----------------------------------------------------------------------------
(* The watched folders of the model *)

Sub(index, codec, lang, title) ==
    [index |-> index, codec |-> codec, lang |-> lang, title |-> title]

Media(bitrate, subs, audio) == [bitrate |-> bitrate, subs |-> subs, audio |-> audio]

InRoot(name) == video_folder \o <<"/">> \o name

LowRate == 2000000
HighRate == 5000000

\* a recording in a container the browser cannot play
Recording(b, subs) == [data |-> <<b>>, media |-> Media(LowRate, subs, 2)]

\* an .mp4 of the two orders of boxes and of a bitrate
Mp4File(moov_first, bitrate, subs) ==
    [data |-> Mp4Data(moov_first, 7), media |-> Media(bitrate, subs, 1)]

TextFile(d) == [data |-> d, media |-> NoMedia]

\* two English text streams told apart by their titles, and a bitmap stream
TitledSubs == << Sub(2, "subrip", <<"eng">>, <<"S", "!", "D">>),
                Sub(3, "subrip", <<"eng">>, <<"F">>),
                Sub(4, "hdmv_pgs_subtitle", <<"rum">>, <<>>) >>

\* two text streams of two languages, one without a language tag
TwoLangSubs == << Sub(2, "ass", <<"eng">>, <<>>), Sub(3, "subrip", <<>>, <<>>) >>

PipeDisks ==
    { \* an .mkv with titled subtitle streams of one language
      InRoot(<<"a", ".", "mkv">>) :> Recording(5, TitledSubs),
      \* an .avi above the bitrate threshold
      InRoot(<<"a", ".", "avi">>) :> [Recording(5, <<>>) EXCEPT !.media.bitrate = HighRate],
      \* an .mp4 with the media data first, above the threshold
      InRoot(<<"a", ".", "mp4">>) :> Mp4File(FALSE, HighRate, <<>>),
      \* an .mkv beside a .webm of the same stem
      (InRoot(<<"a", ".", "mkv">>) :> Recording(5, <<>>))
        @@ (InRoot(<<"a", ".", "webm">>) :> Recording(6, <<>>)),
      \* an .avi and an .mkv of the same stem
      (InRoot(<<"a", ".", "avi">>) :> Recording(5, <<>>))
        @@ (InRoot(<<"a", ".", "mkv">>) :> Recording(6, <<>>)),
      \* an .mp4 with an external .srt
      (InRoot(<<"a", ".", "mp4">>) :> Mp4File(TRUE, LowRate, <<>>))
        @@ (InRoot(<<"a", ".", "srt">>) :> TextFile(<<49, 44, 50>>)),
      \* a converted .mp4 beside the .mkv.bak the batch tool left
      (InRoot(<<"a", ".", "mp4">>) :> Mp4File(TRUE, LowRate, <<>>))
        @@ (InRoot(<<"a", ".", "mkv", ".", "bak">>) :> Recording(5, TwoLangSubs)),
      \* an .mp4 with embedded text streams, in a subfolder
      InRoot(<<"d", "/", "a", ".", "mp4">>) :> Mp4File(TRUE, LowRate, TwoLangSubs),
      \* an .mkv in a subfolder beside a stale temp output
      (InRoot(<<"d", "/", "a", ".", "mkv">>) :> Recording(5, <<>>))
        @@ (InRoot(<<"d", "/", "_", "convert", "_", "temp", ".", "mp4">>) :> PartialFile),
      \* an .mp4 at the bitrate threshold beside a leftover temp output above it
      (InRoot(<<"b", ".", "mp4">>) :> Mp4File(TRUE, MAX_BITRATE, <<>>))
        @@ (InRoot(<<"_", "b", ".", "mp4">>) :> Mp4File(TRUE, HighRate, <<>>)),
      \* nothing to do
      (InRoot(<<"a", ".", "mp4">>) :> Mp4File(TRUE, LowRate, <<>>))
        @@ (InRoot(<<"a", ".", "vtt">>) :> TextFile(<<87>>)),
      \* an .mp4 whose first box has size 1 and an extended size of 0
      InRoot(<<"h", ".", "mp4">>) :>
        [data |-> <<0, 0, 0, 1, 102, 114, 101, 101, 0, 0, 0, 0, 0, 0, 0, 0>>,
         media |-> Media(LowRate, <<>>, 1)] }

----------------------------------------------------------------------------
(* The specifications *)

\* the pipeline: main(), the worker thread and the scanner over a watched folder
Init ==
    /\ fs \in PipeDisks
    /\ ffmpeg_path \in BOOLEAN
    /\ ffprobe_path \in BOOLEAN
    /\ req = NoReq /\ resp = NoResp /\ hpc = "idle" /\ hfile = NoFile
    /\ opened = {} /\ proc = "none"
    /\ wpc = "main"
    /\ lists = NoLists
    /\ task = NoTask
    /\ converting_now = <<>>
    /\ stop_event = FALSE
    /\ video_list = <<>>
    /\ videos = <<>>
    /\ hist = NoHist
    /\ remux = NoRemux /\ children = <<>>

Next ==
    \/ main_startup \/ main_rescan \/ main_shutdown
    \/ _run_classify \/ _run_exit \/ _run_wait \/ _run_for_ends
    \/ _convert_one_begin \/ _convert_one_subs \/ _convert_one_run
    \/ _convert_one_rename \/ _convert_one_notify \/ _convert_one_cleanup
    \/ _convert_one_finally
    \/ _fix_faststart_begin \/ _fix_faststart_run \/ _fix_faststart_unlink
    \/ _fix_faststart_rename \/ _fix_faststart_notify \/ _fix_faststart_cleanup
    \/ _fix_faststart_finally
    \/ _compress_video_begin \/ _compress_video_run \/ _compress_video_unlink
    \/ _compress_video_rename \/ _compress_video_notify \/ _compress_video_cleanup
    \/ _compress_video_finally
    \/ _extract_subtitles_begin \/ _extract_subtitles_srt
    \/ _extract_subtitles_stream \/ _extract_subtitles_return

Spec == Init /\ [][Next]_vars

\* the Streaming Handler: one handler thread serving requests over a tree
\* that does not change
InitHttp ==
    /\ fs = HttpDisk
    /\ ffmpeg_path \in BOOLEAN
    /\ ffprobe_path = FALSE
    /\ req = NoReq /\ resp = NoResp /\ hpc = "idle" /\ hfile = NoFile
    /\ opened = {} /\ proc = "none"
    /\ wpc = "no_converter"
    /\ lists = NoLists
    /\ task = NoTask
    /\ converting_now = <<>>
    /\ stop_event = FALSE
    /\ video_list = scan(HttpDisk)
    /\ videos = scan(HttpDisk)
    /\ hist = NoHist
    /\ remux = NoRemux /\ children = <<>>

NextHttp ==
    \/ \E r \in Requests : Receive(r)
    \/ do_OPTIONS \/ _route_not_found \/ _handle_api_videos \/ _handle_api_health
    \/ _handle_subtitle \/ _handle_video_stream \/ _stream_file_open
    \/ _stream_file_block \/ _stream_file_broken
    \/ _handle_video_stream_audio \/ _remux_chunk \/ _remux_leave
    \/ _finish \/ client_repeats_as_head

SpecHttp == InitHttp /\ [][NextHttp]_vars

\* live-remux requests served by two threads at once
InitRemux ==
    /\ fs = HttpDisk
    /\ ffmpeg_path = TRUE
    /\ ffprobe_path = FALSE
    /\ req = NoReq /\ resp = NoResp /\ hpc = "idle" /\ hfile = NoFile
    /\ opened = {} /\ proc = "none"
    /\ wpc = "no_converter"
    /\ lists = NoLists
    /\ task = NoTask
    /\ converting_now = <<>>
    /\ stop_event = FALSE
    /\ video_list = scan(HttpDisk)
    /\ videos = scan(HttpDisk)
    /\ hist = NoHist
    /\ remux = NoRemux /\ children = <<>>

NextRemux ==
    \/ \E h \in Handlers :
          \/ _remux_begin(h) \/ _remux_popen(h) \/ _remux_loop(h)
          \/ _remux_finally(h) \/ _remux_return(h)
    \/ \E c \in 1..Len(children) : child_exits(c)

SpecRemux == InitRemux /\ [][NextRemux]_vars

----------------------------------------------------------------------------
(* The server while its owner adds files, every transcoder invocation ending
   well: the folders hold recordings without subtitles and of a low bitrate,
   which need ContainerConvert and no other task *)

\* the folders at startup: a recording to convert, or nothing to do
FairDisks ==
    { [p \in {InRoot(<<"a", ".", "mkv">>)} |-> Recording(1, <<>>)],
      [p \in {InRoot(<<"a", ".", "mp4">>)} |-> Mp4File(TRUE, LowRate, <<>>)] }

\* the recordings the owner copies into the folder while the server runs
AddedFiles == {InRoot(<<"b", ".", "mkv">>), InRoot(<<"d", "/", "a", ".", "avi">>)}

\* a recording appears in the watched folder
file_added ==
    /\ wpc # "main"
    /\ \E p \in AddedFiles :
          /\ ~ExistsIn(fs, p)
          /\ fs' = FsWrite(fs, p, Recording(2, <<>>))
    /\ UNCHANGED <<httpVars, remuxVars, ffmpeg_path, pipeVars>>

\* subprocess.run returns exit code 0 and the output is written
InvocationSucceeds == task'.result = "zero" /\ task'.written

InitFair ==
    /\ fs \in FairDisks
    /\ ffmpeg_path = TRUE
    /\ ffprobe_path \in BOOLEAN
    /\ req = NoReq /\ resp = NoResp /\ hpc = "idle" /\ hfile = NoFile
    /\ opened = {} /\ proc = "none"
    /\ wpc = "main"
    /\ lists = NoLists
    /\ task = NoTask
    /\ converting_now = <<>>
    /\ stop_event = FALSE
    /\ video_list = <<>>
    /\ videos = <<>>
    /\ hist = NoHist
    /\ remux = NoRemux /\ children = <<>>

\* the steps of the worker thread
WorkerFair ==
    \/ _run_classify \/ _run_wait \/ _run_for_ends
    \/ _convert_one_begin
    \/ (_convert_one_run /\ InvocationSucceeds)
    \/ _convert_one_rename \/ _convert_one_notify \/ _convert_one_finally

NextFair == main_startup \/ main_rescan \/ file_added \/ WorkerFair

\* where a started worker thread is while it runs
WorkerRunning == {"loop", "wait", "for_convert", "for_fix", "for_compress", "for_subs",
                  "convert_subs", "convert_check", "convert_notify", "convert_finally"}

\* main() gets through its startup
MainStarts == wpc = "main" /\ wpc' \in {"loop", "no_converter"}

\* the worker thread takes its next step: every step of WorkerFair moves it,
\* and at every place of WorkerRunning a step of WorkerFair is enabled
WorkerMoves == wpc \in WorkerRunning /\ wpc' \in WorkerRunning \ {wpc}

\* the threads are scheduled: main() does not stay in its startup, and a
\* started worker thread does not stay where it is
SpecFair ==
    /\ InitFair /\ [][NextFair]_vars
    /\ WF_wpc(MainStarts) /\ WF_wpc(WorkerMoves)

----------------------------------------------------------------------------
(* The pipeline while the owner of the folder deletes or replaces a file that
   a task of the running cycle was classified for *)

MaxChanges == 1

EnvDisks ==
    { InRoot(<<"a", ".", "mkv">>) :> Recording(5, TitledSubs),
      InRoot(<<"a", ".", "mp4">>) :> Mp4File(FALSE, HighRate, <<>>),
      (InRoot(<<"a", ".", "mp4">>) :> Mp4File(TRUE, LowRate, <<>>))
        @@ (InRoot(<<"a", ".", "srt">>) :> TextFile(<<49, 44, 50>>)) }

\* the files the tasks still to run in this cycle were classified for
PendingSources ==
    SeqToSet(lists.convert) \cup SeqToSet(lists.fix) \cup SeqToSet(lists.compress)
    \cup {lists.subs[i].video_path : i \in 1..Len(lists.subs)}
    \cup {lists.subs[i].srt_path : i \in 1..Len(lists.subs)}

\* between the classification and the execution of a task its file is deleted,
\* or replaced by a file that is still empty
owner_changes ==
    /\ wpc \in {"for_convert", "for_fix", "for_compress", "for_subs"}
    /\ hist.changes < MaxChanges
    /\ \E p \in PendingSources \cap DOMAIN fs :
          \/ fs' = FsUnlink(fs, p)
          \/ fs' = FsWrite(fs, p, PartialFile)
    /\ hist' = [hist EXCEPT !.changes = @ + 1]
    /\ UNCHANGED <<httpVars, remuxVars, ffmpeg_path, ffprobe_path, wpc, lists, task,
                   converting_now, stop_event, video_list, videos>>

InitEnv ==
    /\ fs \in EnvDisks
    /\ ffmpeg_path \in BOOLEAN
    /\ ffprobe_path \in BOOLEAN
    /\ req = NoReq /\ resp = NoResp /\ hpc = "idle" /\ hfile = NoFile
    /\ opened = {} /\ proc = "none"
    /\ wpc = "main"
    /\ lists = NoLists
    /\ task = NoTask
    /\ converting_now = <<>>
    /\ stop_event = FALSE
    /\ video_list = <<>>
    /\ videos = <<>>
    /\ hist = NoHist
    /\ remux = NoRemux /\ children = <<>>

NextEnv == Next \/ owner_changes

SpecEnv == InitEnv /\ [][NextEnv]_vars

----------------------------------------------------------------------------
(* The Box Reader over files written box by box *)

MaxBoxes == 2
MaxPayload == 1

Ftyp == <<102, 116, 121, 112>>

\* a top-level box: its type, the form of its size field and its payload length.
\* "short" has the 32-bit size, "ext" the size field 1 and a 64-bit size,
\* "small" a size field of 7, "ext0" the size field 1 and a 64-bit size of 0.
BoxAlphabet ==
    {[type |-> Ftyp, form |-> fm, n |-> n] : fm \in {"short", "ext"}, n \in 0..MaxPayload}
    \cup {[type |-> Ftyp, form |-> fm, n |-> 0] : fm \in {"small", "ext0"}}
    \cup {[type |-> t, form |-> fm, n |-> 0] : t \in {Moov, Mdat},
                                               fm \in {"short", "ext", "small"}}

Be32(k) == <<0, 0, 0, k>>
Be64(k) == <<0, 0, 0, 0, 0, 0, 0, k>>

EncodeBox(b) ==
    LET fill == [i \in 1..b.n |-> 7]
    IN  CASE b.form = "short" -> Be32(8 + b.n) \o b.type \o fill
          [] b.form = "ext"   -> Be32(1) \o b.type \o Be64(16 + b.n) \o fill
          [] b.form = "small" -> Be32(7) \o b.type \o fill
          [] OTHER            -> Be32(1) \o b.type \o Be64(0) \o fill

RECURSIVE EncodeBoxes(_)
EncodeBoxes(bl) == IF bl = <<>> THEN <<>> ELSE EncodeBox(Head(bl)) \o EncodeBoxes(Tail(bl))

\* the numbers of bytes cut off the end of a file
Cuts == {0, 1, 4, 8, 9, 12, 16}

BoxInputs ==
    {[boxes |-> bl, cut |-> c] :
        bl \in UNION {[1..k -> BoxAlphabet] : k \in 0..MaxBoxes}, c \in Cuts}

\* the bytes of the file of an input
BoxData(inp) ==
    LET d == EncodeBoxes(inp.boxes)
    IN  SubSeq(d, 1, IF Len(d) > inp.cut THEN Len(d) - inp.cut ELSE 0)

BoxPath == video_folder \o <<"/", "a", ".", "mp4">>

\* the worker before a classification pass, over a folder with one .mp4
InitBox ==
    /\ \E inp \in BoxInputs :
         /\ fs = [p \in {BoxPath} |-> [data |-> BoxData(inp), media |-> Media(LowRate, <<>>, 1)]]
         /\ hist = [NoHist EXCEPT !.box = inp]
    /\ ffmpeg_path = TRUE
    /\ ffprobe_path = FALSE
    /\ req = NoReq /\ resp = NoResp /\ hpc = "idle" /\ hfile = NoFile
    /\ opened = {} /\ proc = "none"
    /\ wpc = "loop"
    /\ lists = NoLists
    /\ task = NoTask
    /\ converting_now = <<>>
    /\ stop_event = FALSE
    /\ video_list = <<>>
    /\ videos = <<>>
    /\ remux = NoRemux /\ children = <<>>

NextBox == _run_classify

SpecBox == InitBox /\ [][NextBox]_vars

----------------------------------------------------------------------------
(* The scanner's cache of audio tracks over scans of a folder whose owner
   changes files.  hist.mtime is st_mtime of each file, hist.audio_cache is
   VideoScanner._audio_cache, hist.last_probe tells of the last invocation of
   the probe for a file: the mtime it saw, and whether the invocation before
   it saw the same *)

\* the changes of one file
MaxTouch == 1

\* the files scan asks _get_audio_tracks about
AudioTargets(f) == {p \in ListedFiles(f) : PathSuffix(p) = <<".", "mp4">>}

\* cached and cached[0] == mtime
CacheHit(p) ==
    p \in DOMAIN hist.audio_cache /\ hist.audio_cache[p].mtime = hist.mtime[p]

\* the files a scan runs the probe on: no probe without the tool, none on a hit
Probed(f) == IF ffprobe_path THEN {p \in AudioTargets(f) : ~CacheHit(p)} ELSE {}

\* what _get_audio_tracks returns for p in a scan whose probe fails on failed
\* (the number of tracks; 0 is the empty list)
AudioTracksCached(f, p, failed) ==
    IF ~ffprobe_path THEN 0
    ELSE IF CacheHit(p) THEN hist.audio_cache[p].tracks
    ELSE IF p \in failed THEN 0
    ELSE f[p].media.audio

\* one scan() of the folder with its cache, published
scan_with_cache ==
    /\ \E failed \in SUBSET Probed(fs) :
         LET listed == Sorted(ListedFiles(fs))
             stored == Probed(fs) \ failed
         IN  /\ video_list' =
                  [i \in 1..Len(listed) |->
                     LET tracks == IF PathSuffix(listed[i]) = <<".", "mp4">>
                                   THEN AudioTracksCached(fs, listed[i], failed) ELSE 0
                     IN  [CatalogEntry(fs, listed[i]) EXCEPT
                            !.audio_tracks = IF tracks > 1 THEN tracks ELSE 0]]
             /\ hist' = [hist EXCEPT
                  !.audio_cache =
                      [p \in DOMAIN hist.audio_cache \cup stored |->
                         IF p \in stored
                         THEN [mtime |-> hist.mtime[p], tracks |-> fs[p].media.audio]
                         ELSE hist.audio_cache[p]],
                  !.last_probe =
                      [p \in DOMAIN hist.last_probe \cup Probed(fs) |->
                         IF p \in Probed(fs)
                         THEN [mtime |-> hist.mtime[p],
                               again |-> /\ p \in DOMAIN hist.last_probe
                                         /\ hist.last_probe[p].mtime = hist.mtime[p]]
                         ELSE hist.last_probe[p]]]
    /\ UNCHANGED <<fs, httpVars, remuxVars, ffmpeg_path, ffprobe_path, wpc, lists, task,
                   converting_now, stop_event, videos>>

\* the owner of the folder rewrites a file: a new mtime, and the audio streams
\* of the new content
file_touched ==
    /\ \E p \in DOMAIN fs, a \in 1..2 :
         /\ hist.mtime[p] < MaxTouch
         /\ fs' = [fs EXCEPT ![p].media.audio = a]
         /\ hist' = [hist EXCEPT !.mtime[p] = @ + 1]
    /\ UNCHANGED <<httpVars, remuxVars, ffmpeg_path, ffprobe_path, wpc, lists, task,
                   converting_now, stop_event, video_list, videos>>

ScanDisks ==
    { \* an .mp4 of two audio streams
      InRoot(<<"a", ".", "mp4">>) :> [Mp4File(TRUE, LowRate, <<>>) EXCEPT !.media.audio = 2],
      \* an .mp4 of one audio stream beside one of two
      (InRoot(<<"a", ".", "mp4">>) :> Mp4File(TRUE, LowRate, <<>>))
        @@ (InRoot(<<"d", "/", "b", ".", "mp4">>) :>
              [Mp4File(TRUE, LowRate, <<>>) EXCEPT !.media.audio = 2]),
      \* a recording of two audio streams beside an .mp4 without sound
      (InRoot(<<"a", ".", "mkv">>) :> Recording(5, <<>>))
        @@ (InRoot(<<"c", ".", "mp4">>) :>
              [Mp4File(TRUE, LowRate, <<>>) EXCEPT !.media.audio = 0]) }

InitScan ==
    /\ fs \in ScanDisks
    /\ ffmpeg_path = FALSE
    /\ ffprobe_path \in BOOLEAN
    /\ req = NoReq /\ resp = NoResp /\ hpc = "idle" /\ hfile = NoFile
    /\ opened = {} /\ proc = "none"
    /\ wpc = "no_converter"
    /\ lists = NoLists
    /\ task = NoTask
    /\ converting_now = <<>>
    /\ stop_event = FALSE
    /\ video_list = <<>>
    /\ videos = <<>>
    /\ hist = [NoHist EXCEPT !.mtime = [p \in DOMAIN fs |-> 0]]
    /\ remux = NoRemux /\ children = <<>>

NextScan == scan_with_cache \/ file_touched

SpecScan == InitScan /\ [][NextScan]_vars

----------------------------------------------------------------------------
(* The batch tool: main() of server/convert_videos.py, run alone on a folder *)

\* MAX_BITRATE and TARGET_BITRATE of convert_videos.py
BATCH_MAX_BITRATE == 8000000
BATCH_TARGET_BITRATE == 5000000

\* subprocess.run(cmd) without a timeout, on a source that exists: the exit
\* code is 0 and the output is written, or it is not 0 and the output is partly
\* written or not begun
BatchOutcomes == {"zero_written", "nonzero_partial", "nonzero_none"}

\* what convert_file's "-c:v copy -c:a aac -b:a 192k -movflags +faststart"
\* makes of a recording (no -map: one audio stream)
convert_file(f) ==
    [data |-> Mp4Data(TRUE, Payload(f)),
     media |-> [bitrate |-> f.media.bitrate, subs |-> <<>>,
                audio |-> Min(f.media.audio, 1)]]

\* what compress_file's "-c:v libx264 -b:v 5M ... -c:a aac -b:a 192k" makes
compress_file(f) ==
    [data |-> Mp4Data(TRUE, Payload(f)),
     media |-> [f.media EXCEPT !.bitrate = BATCH_TARGET_BITRATE + AUDIO_BITRATE]]

\* get_video_bitrate of convert_videos.py
get_video_bitrate(f, p, failed) ==
    IF ~ffprobe_path \/ p \in failed THEN 0 ELSE f[p].media.bitrate

\* lines 188-199: the recordings without an .mp4 of their stem beside them
files_to_convert(f) ==
    Sorted({p \in FilesUnder(f) :
              /\ PathSuffix(p) \in CONVERTIBLE
              /\ ~ExistsIn(f, WithSuffix(p, <<".", "mp4">>))})

\* lines 265-279: the .mp4 files probed above the batch threshold
files_to_compress(f, failed) ==
    Sorted({p \in FilesUnder(f) :
              /\ EndsWith(PathName(p), <<".", "mp4">>)
              /\ <<".", "bak">> \notin PathSuffixes(p)
              /\ get_video_bitrate(f, p, failed) > BATCH_MAX_BITRATE})

\* what the run did with one file: its content before, and what the transcoder
\* was to make of it
BatchRecord(kind, src, good, ok) ==
    [kind |-> kind, src |-> src, original |-> fs[src], processed |-> good, ok |-> ok]

\* lines 169-222: the tools are looked up, the files to convert are listed and
\* the user answers "Start conversion? (y/n)"
batch_start ==
    /\ wpc = "batch"
    /\ IF ~ffmpeg_path
       THEN wpc' = "batch_exit" /\ UNCHANGED lists
       ELSE \E response \in {"y", "n"} :
              IF files_to_convert(fs) # <<>> /\ response = "y"
              THEN /\ lists' = [lists EXCEPT !.convert = files_to_convert(fs)]
                   /\ wpc' = "batch_convert"
              ELSE /\ wpc' = "batch_phase2"
                   /\ UNCHANGED lists
    /\ UNCHANGED <<fs, httpVars, remuxVars, ffmpeg_path, ffprobe_path, task, converting_now,
                   stop_event, video_list, videos, hist>>

\* lines 225-239: one file of the conversion loop.  The transcoder writes to
\* the .mp4 name itself; exit code 0 renames the original to <name>.bak, any
\* other deletes whatever is at the .mp4 name
batch_convert_one ==
    /\ wpc = "batch_convert"
    /\ lists.convert # <<>>
    /\ LET file_path == Head(lists.convert)
           mp4_path  == WithSuffix(file_path, <<".", "mp4">>)
           bak_path  == file_path \o <<".", "bak">>
           good      == convert_file(fs[file_path])
       IN  \E o \in BatchOutcomes :
             LET after == AfterInvoke(fs, mp4_path, good, o)
             IN  /\ fs' = IF ResultOf(o) = "zero"
                          THEN FsRename(after, file_path, bak_path)
                          ELSE IF ExistsIn(after, mp4_path)
                          THEN FsUnlink(after, mp4_path)
                          ELSE after
                 /\ hist' = [hist EXCEPT !.batch = @ \cup
                               {BatchRecord("convert", file_path, good,
                                            ResultOf(o) = "zero")}]
    /\ lists' = [lists EXCEPT !.convert = Tail(@)]
    /\ UNCHANGED <<httpVars, remuxVars, ffmpeg_path, ffprobe_path, wpc, task, converting_now,
                   stop_event, video_list, videos>>

\* the conversion loop is over
batch_convert_end ==
    /\ wpc = "batch_convert"
    /\ lists.convert = <<>>
    /\ wpc' = "batch_phase2"
    /\ UNCHANGED <<fs, httpVars, remuxVars, ffmpeg_path, ffprobe_path, lists, task,
                   converting_now, stop_event, video_list, videos, hist>>

\* lines 255-297: without the probe the tool ends; else the .mp4 files are
\* probed and the user answers "Start compression? (y/n)"
batch_scan ==
    /\ wpc = "batch_phase2"
    /\ IF ~ffprobe_path
       THEN wpc' = "batch_exit" /\ UNCHANGED lists
       ELSE \E failed \in SUBSET {p \in FilesUnder(fs) :
                                    EndsWith(PathName(p), <<".", "mp4">>)} :
            \E response \in {"y", "n"} :
              IF files_to_compress(fs, failed) # <<>> /\ response = "y"
              THEN /\ lists' = [lists EXCEPT !.compress = files_to_compress(fs, failed)]
                   /\ wpc' = "batch_compress"
              ELSE /\ wpc' = "batch_exit"
                   /\ UNCHANGED lists
    /\ UNCHANGED <<fs, httpVars, remuxVars, ffmpeg_path, ffprobe_path, task, converting_now,
                   stop_event, video_list, videos, hist>>

\* lines 299-319: one file of the compression loop.  The transcoder writes to
\* <stem>.compressed.mp4.tmp; exit code 0 renames the original to <stem>.mp4.bak
\* and the output to the original's name, any other deletes the output
batch_compress_one ==
    /\ wpc = "batch_compress"
    /\ lists.compress # <<>>
    /\ LET file_path == Head(lists.compress)
           temp_path == WithName(file_path, PathStem(file_path)
                                   \o <<".", "compressed", ".", "mp4", ".", "tmp">>)
           bak_path  == WithSuffix(file_path, <<".", "mp4", ".", "bak">>)
           good      == compress_file(fs[file_path])
       IN  \E o \in BatchOutcomes :
             LET after == AfterInvoke(fs, temp_path, good, o)
             IN  /\ fs' = IF ResultOf(o) = "zero"
                          THEN FsRename(FsRename(after, file_path, bak_path),
                                        temp_path, file_path)
                          ELSE IF ExistsIn(after, temp_path)
                          THEN FsUnlink(after, temp_path)
                          ELSE after
                 /\ hist' = [hist EXCEPT !.batch = @ \cup
                               {BatchRecord("compress", file_path, good,
                                            ResultOf(o) = "zero")}]
    /\ lists' = [lists EXCEPT !.compress = Tail(@)]
    /\ UNCHANGED <<httpVars, remuxVars, ffmpeg_path, ffprobe_path, wpc, task, converting_now,
                   stop_event, video_list, videos>>

\* the compression loop is over
batch_compress_end ==
    /\ wpc = "batch_compress"
    /\ lists.compress = <<>>
    /\ wpc' = "batch_exit"
    /\ UNCHANGED <<fs, httpVars, remuxVars, ffmpeg_path, ffprobe_path, lists, task,
                   converting_now, stop_event, video_list, videos, hist>>

\* a recording above the batch threshold
BigRecording(b) ==
    [Recording(b, <<>>) EXCEPT !.media.bitrate = BATCH_MAX_BITRATE + 1]

BatchDisks ==
    { \* one recording, below and above the threshold
      InRoot(<<"a", ".", "mkv">>) :> Recording(5, TitledSubs),
      InRoot(<<"a", ".", "MKV">>) :> BigRecording(5),
      \* an .mp4 above the threshold beside a recording in a subfolder
      (InRoot(<<"a", ".", "mp4">>) :> Mp4File(FALSE, BATCH_MAX_BITRATE + 1, <<>>))
        @@ (InRoot(<<"d", "/", "b", ".", "mov">>) :> Recording(6, <<>>)),
      \* an .mp4 at the threshold, beside the recording it was made from
      (InRoot(<<"a", ".", "mp4">>) :> Mp4File(TRUE, BATCH_MAX_BITRATE, <<>>))
        @@ (InRoot(<<"a", ".", "mkv">>) :> Recording(5, <<>>)),
      \* two recordings of the same stem
      (InRoot(<<"a", ".", "avi">>) :> Recording(5, <<>>))
        @@ (InRoot(<<"a", ".", "mkv">>) :> BigRecording(6)),
      \* a recording above the threshold in a subfolder, an .mp4 of its stem above
      (InRoot(<<"d", "/", "a", ".", "avi">>) :> BigRecording(5))
        @@ (InRoot(<<"a", ".", "mp4">>) :> Mp4File(TRUE, LowRate, <<>>)),
      \* two recordings and an .mp4 above the threshold
      (InRoot(<<"a", ".", "mkv">>) :> BigRecording(5))
        @@ (InRoot(<<"b", ".", "avi">>) :> Recording(6, <<>>))
        @@ (InRoot(<<"c", ".", "mp4">>) :> Mp4File(TRUE, BATCH_MAX_BITRATE + 1, <<>>)) }

InitBatch ==
    /\ fs \in BatchDisks
    /\ ffmpeg_path \in BOOLEAN
    /\ ffprobe_path \in BOOLEAN
    /\ req = NoReq /\ resp = NoResp /\ hpc = "idle" /\ hfile = NoFile
    /\ opened = {} /\ proc = "none"
    /\ wpc = "batch"
    /\ lists = NoLists
    /\ task = NoTask
    /\ converting_now = <<>>
    /\ stop_event = FALSE
    /\ video_list = <<>>
    /\ videos = <<>>
    /\ hist = NoHist
    /\ remux = NoRemux /\ children = <<>>

NextBatch ==
    \/ batch_start \/ batch_convert_one \/ batch_convert_end
    \/ batch_scan \/ batch_compress_one \/ batch_compress_end

SpecBatch == InitBatch /\ [][NextBatch]_vars

----------------------------------------------------------------------------
(* The Streaming Handler: what SpecHttp is checked for *)

\* the request is answered and the client read the response to its end
Answered == hpc = "done" /\ ~resp.aborted /\ ~resp.crashed

\* the request is for the plain /video route (no ?audio= selects the remux)
PlainVideo == Route(req.path) = "video" /\ ~AudioSelected(req)

\* the target of the request is a file under the watched root
TargetUnderRoot == full_path \in FilesUnder(fs)

\* the header is exactly bytes=s-e
IsRange(s, e) == req.range_present /\ req.range = <<"bytes=">> \o Num(s) \o <<"-">> \o Num(e)

\* the header is exactly bytes=s-
IsOpenRange(s) == req.range_present /\ req.range = <<"bytes=">> \o Num(s) \o <<"-">>

\* the bytes at offsets s..e of a file
Slice(data, s, e) == [i \in 1..(e - s + 1) |-> data[s + i]]

\* C1: for a file of size N under the watched root and a header bytes=s-e with
\* 0 <= s <= e < N, GET /video/<path> answers 206 with Content-Range
\* bytes s-e/N, Content-Length e-s+1 and a body of exactly the bytes at
\* offsets s..e of the file.
C1_RangeServed ==
    \A s \in 0..MaxOff, e \in 0..MaxOff :
      ( /\ Answered /\ req.method = "GET" /\ PlainVideo /\ TargetUnderRoot
        /\ IsRange(s, e)
        /\ s <= e /\ e < Len(fs[full_path].data) )
      => /\ resp.status = 206
         /\ resp.content_range = [kind |-> "range", s |-> s, e |-> e,
                                  n |-> Len(fs[full_path].data)]
         /\ resp.content_length = e - s + 1
         /\ resp.body = Slice(fs[full_path].data, s, e)

\* a range of three bytes from the middle of the five of a.mp4 was served
C1_Witness ==
    /\ Answered /\ req.method = "GET" /\ PlainVideo /\ TargetUnderRoot
    /\ IsRange(1, 3)
    /\ resp.status = 206
    /\ resp.body = <<12, 13, 14>>

\* C2: a range request whose start is at or after the file size, or whose
\* start exceeds the clamped end, is answered 416 with Content-Range
\* bytes */<size> and no body; on an empty file that is every range.
C2_RangeNotSatisfiable ==
    \A s \in 0..MaxOff :
      LET size == Len(fs[full_path].data)
          rejected == /\ resp.status = 416
                      /\ resp.content_range = [kind |-> "unsat", s |-> 0, e |-> 0,
                                               n |-> size]
                      /\ resp.body = <<>> /\ ~resp.errpage
                      /\ opened = {}
      IN  /\ \A e \in 0..MaxOff :
                ( /\ Answered /\ PlainVideo /\ TargetUnderRoot /\ IsRange(s, e)
                  /\ (s >= size \/ s > Min(e, size - 1)) )
                => rejected
          /\ ( /\ Answered /\ PlainVideo /\ TargetUnderRoot /\ IsOpenRange(s)
               /\ s >= size )
             => rejected

\* a range of the empty file was rejected, and one past the end of a.mp4
C2_Witness ==
    /\ Answered /\ PlainVideo /\ TargetUnderRoot
    /\ resp.status = 416
    /\ \/ IsRange(0, 0) /\ fs[full_path].data = <<>>
       \/ IsOpenRange(5) /\ Len(fs[full_path].data) = 5

\* the resolved target lies outside the tree of the watched root
Escapes == ~(full_path = video_folder \/ StartsWith(full_path, video_folder \o <<"/">>))

\* C3: a request to /video/<path> (plain or ?audio=) or /subs/<path> whose
\* resolved target is not inside the watched root tree is answered 403, no
\* byte of the target is read and no transcoder is started.  (A 503 of the
\* ?audio= route without a transcoder is let pass here.)
C3_EscapeForbidden ==
    ( /\ hpc = "done" /\ req.method \in {"GET", "HEAD"}
      /\ Route(req.path) \in {"video", "subs"} /\ Escapes )
    => /\ \/ resp.status = 403
          \/ resp.status = 503 /\ AudioSelected(req) /\ ~ffmpeg_path
       /\ opened = {}
       /\ proc = "none"

\* C4: every response the handler produces, whatever the route and the
\* status, carries Access-Control-Allow-Origin: *.
C4_CorsEverywhere == (hpc = "done" /\ resp.status # 0) => resp.cors

----------------------------------------------------------------------------
(* The Media Maintenance Pipeline: what Spec is checked for *)

\* a handler of one of the three tasks with a temp output has returned
TempTaskReturned ==
    /\ task.kind \in {"convert", "fix", "compress"}
    /\ task.phase = "returned"

\* the transcoder invocation of the task ended in something other than exit
\* code 0 with the temp output present
TranscodeFailed == ~(task.result = "zero" /\ task.written)

\* a filesystem without the temp outputs and the subtitle sidecars
Assets(f) == {p \in DOMAIN f : ~IsTempName(p) /\ PathSuffix(p) # <<".", "vtt">>}

\* C5: for ContainerConvert, LayoutFix and BitrateCompress, if the transcoder
\* ends in anything but exit code 0 with the temp output present (nonzero exit,
\* missing output, timeout, exception), then at the return of the handler the
\* temp output does not exist, the source is at its path with its content, no
\* final file was created or replaced and no notification was issued; the
\* state left does not depend on which of the failures it was.
C5_FailureLeavesNoTrace ==
    (TempTaskReturned /\ TranscodeFailed)
    => /\ ~IsFile(task.temp)
       /\ IsFile(task.src) /\ fs[task.src] = task.fs0[task.src]
       /\ task.out \in DOMAIN fs <=> task.out \in DOMAIN task.fs0
       /\ task.out \in DOMAIN fs => fs[task.out] = task.fs0[task.out]
       /\ Assets(fs) = Assets(task.fs0)
       /\ \A p \in Assets(fs) : fs[p] = task.fs0[p]
       /\ ~task.notified /\ ~task.renamed

\* a BitrateCompress whose transcoder timed out after writing part of the temp
\* output has returned
C5_Witness ==
    /\ TempTaskReturned /\ task.kind = "compress"
    /\ task.result = "timeout" /\ task.written
    /\ ~IsFile(task.temp)

\* C6: every transcoder invocation of the worker writes to a path with the
\* temp prefix, and a final-named output comes into existence only through a
\* rename after exit code 0 with the output present.
C6_TempThenRename ==
    /\ \A p \in hist.invoked : IsTempName(p)
    /\ hist.direct = {}

\* C7: once a task has executed successfully and nothing else changes the
\* filesystem, the next classification pass does not produce that task again.
C7_NotReproduced == hist.reproduced = {}

ConvertSucceeded ==
    task.kind = "convert" /\ task.phase = "returned" /\ task.renamed

\* the path of the original with a backup suffix
BackupOf(p) == p \o <<".", "bak">>

\* C9 as stated: after a ContainerConvert succeeds the original exists renamed
\* with a backup suffix, and no file remains at its original path.
C9_OriginalRenamed ==
    ConvertSucceeded
    => /\ ~IsFile(task.src)
       /\ IsFile(BackupOf(task.src))

\* C9, amended: after a ContainerConvert of the worker succeeds the original
\* is at its original path with its content, beside the new .mp4, and no
\* backup-suffixed copy of it was made.
C9_OriginalKept ==
    ConvertSucceeded
    => /\ IsFile(task.src) /\ fs[task.src] = task.fs0[task.src]
       /\ IsFile(task.out) /\ fs[task.out] = ConvertOutput(fs[task.src])
       /\ ~IsFile(BackupOf(task.src))

\* a.mkv was converted: a.mp4 is there, and so is a.mkv
C9_Witness ==
    /\ ConvertSucceeded
    /\ task.src = InRoot(<<"a", ".", "mkv">>)
    /\ IsFile(InRoot(<<"a", ".", "mp4">>))
    /\ IsFile(InRoot(<<"a", ".", "mkv">>))

\* the entries of a catalog for the directory and the stem of a source
EntriesFor(list, src) ==
    {i \in 1..Len(list) :
       /\ list[i].name = PathStem(src)
       /\ PathParent(list[i].path) = PathParent(RelativeTo(src))}

\* C10: after one successful ContainerConvert of a source with stem S in
\* directory D, the next catalog scan has exactly one entry for (D, S), the
\* new .mp4, and the next classification proposes no ContainerConvert for
\* (D, S).
C10_OneEntryAfterConvert ==
    ConvertSucceeded
    => /\ \E i \in 1..Len(scan(fs)) :
            /\ EntriesFor(scan(fs), task.src) = {i}
            /\ scan(fs)[i].path = RelativeTo(task.out)
       /\ \A i \in 1..Len(_find_unconverted(fs)) :
            ~( /\ PathStem(_find_unconverted(fs)[i]) = PathStem(task.src)
               /\ PathParent(_find_unconverted(fs)[i]) = PathParent(task.src) )


----------------------------------------------------------------------------
(* The catalog and its logical assets *)

\* the file an entry of a scan result stands for
EntryFile(e) == video_folder \o <<"/">> \o e.path

\* the logical asset of a file: its parent directory and its stem
AssetOf(p) == <<PathParent(p), PathStem(p)>>

\* the .mp4 files a scan can see: under the root, not named like a temp output
VisibleMp4(f) ==
    {p \in FilesUnder(f) : PathSuffix(p) = <<".", "mp4">> /\ ~IsTempName(p)}

\* C11: for every directory and stem that has an .mp4 file, the result of a scan
\* holds the entry of the .mp4 and holds no .mkv, .avi or .mov entry of the same
\* directory and stem
C11_Mp4Preferred ==
    LET s == scan(fs)
    IN  \A p \in VisibleMp4(fs) :
          /\ \E i \in 1..Len(s) : EntryFile(s[i]) = p
          /\ \A i \in 1..Len(s) :
                AssetOf(EntryFile(s[i])) = AssetOf(p) => s[i].extension \notin CONVERTIBLE

\* a scan was published of a folder where an .mp4 and an .mkv, .avi or .mov
\* share directory and stem
C11_Witness ==
    /\ video_list = scan(fs)
    /\ \E p \in VisibleMp4(fs) : \E q \in FilesUnder(fs) :
          /\ PathSuffix(q) \in CONVERTIBLE
          /\ AssetOf(q) = AssetOf(p)
          /\ \E i \in 1..Len(video_list) : EntryFile(video_list[i]) = p

\* C12: a scan result holds at most one entry for a directory and a stem,
\* whatever playable extensions share the stem
C12_OneEntryPerAsset ==
    LET s == scan(fs)
    IN  \A i, j \in 1..Len(s) :
          AssetOf(EntryFile(s[i])) = AssetOf(EntryFile(s[j])) => i = j


----------------------------------------------------------------------------
(* The order and the ends of the tasks *)

\* the task that returned last did what it was for
TaskSucceeded ==
    /\ task.phase = "returned"
    /\ \/ task.kind = "subs" /\ task.all_ok
       \/ task.kind \in {"convert", "fix", "compress"} /\ task.renamed

\* C13: a task of any of the four types that succeeded has called the
\* catalog-changed notification by the time its handler returns
C13_NotifiedAfterSuccess == TaskSucceeded => task.notified


----------------------------------------------------------------------------
(* The Box Reader *)

\* the first box of a list that is moov or mdat, or whose size field is not
\* that of a whole box; 0 if there is none
FirstStop(bl) ==
    LET stops == {j \in 1..Len(bl) :
                    bl[j].type \in {Moov, Mdat} \/ bl[j].form \in {"small", "ext0"}}
    IN  IF stops = {} THEN 0 ELSE CHOOSE j \in stops : \A k \in stops : j <= k

\* where box j of a list begins in the file
BoxOffset(bl, j) == Len(EncodeBoxes(SubSeq(bl, 1, j - 1)))

\* what the file of an input is to the Box Reader:
\*   "moov", "mdat"  boxes in good form, then the whole header of a moov or mdat
\*   "short_read"    boxes in good form, then the end of the file: in a header,
\*                   in a 64-bit size, in a payload or after the last box
\*   "small_size"    boxes in good form, then a box that is neither moov nor
\*                   mdat with a size field below 8 other than 1
\*   "ext_below_16"  boxes in good form, then a 64-bit size below 16
BoxCase(inp) ==
    LET bl   == inp.boxes
        j    == FirstStop(bl)
        kept == Len(BoxData(inp))
    IN  IF j = 0 \/ BoxOffset(bl, j) + 8 > kept THEN "short_read"
        ELSE IF bl[j].type = Moov THEN "moov"
        ELSE IF bl[j].type = Mdat THEN "mdat"
        ELSE IF bl[j].form = "small" THEN "small_size"
        ELSE IF BoxOffset(bl, j) + 16 > kept THEN "short_read"
        ELSE "ext_below_16"

\* C14: the Box Reader reports no defect for a file whose moov box comes before
\* any mdat box, a defect for a file whose first moov-or-mdat box is mdat, and
\* no defect for a file that ends early or has a box size below 8 other than 1
C14_BoxReader ==
    LET r == _needs_faststart(fs[BoxPath])
        c == BoxCase(hist.box)
    IN  /\ c = "moov" => r = "false"
        /\ c = "mdat" => r = "true"
        /\ c \in {"short_read", "small_size"} => r = "false"
        /\ (hist.cls_n = 1 /\ c # "ext_below_16") =>
              lists.fix = (IF c = "mdat" THEN <<BoxPath>> ELSE <<>>)

\* a classification pass found the defect of a file that has a box with a 64-bit
\* size before its mdat box and no moov box before it
C14_Witness ==
    /\ hist.cls_n = 1
    /\ lists.fix = <<BoxPath>>
    /\ hist.box.cut = 0
    /\ Len(hist.box.boxes) = 2
    /\ hist.box.boxes[1].form = "ext"
    /\ hist.box.boxes[2].type = Mdat


\* the place of a task type in a cycle
KindRank(kind) == CASE kind = "convert"  -> 1
                    [] kind = "fix"      -> 2
                    [] kind = "compress" -> 3
                    [] OTHER             -> 4

\* C15: within one cycle, while a task is executed every task of the cycle of
\* an earlier type has been executed and no task of a later type has
C15_TaskOrder ==
    task.phase = "run" =>
      /\ \A id \in TaskIds(hist.cls_lists) :
            KindRank(id.kind) < KindRank(task.kind) => id \in hist.started
      /\ \A id \in hist.started : KindRank(id.kind) <= KindRank(task.kind)

\* a BitrateCompress task is executed after the LayoutFix task of its cycle
C15_Witness ==
    /\ task.phase = "run"
    /\ task.kind = "compress"
    /\ \E id \in hist.started : id.kind = "fix"

\* where the worker is when it is in no handler
OutsideHandlers == {"main", "main_hung", "no_converter", "loop", "wait", "hung", "exited",
                    "for_convert", "for_fix", "for_compress", "for_subs"}

----------------------------------------------------------------------------
(* The children of the live remux *)

\* a child the code can no longer stop: it runs, no terminate was sent to it,
\* and no handler in its streaming loop or its finally clause holds it
Unobserved(c) ==
    /\ children[c].status = "running"
    /\ children[c].signalled = {}
    /\ ~\E h \in Handlers : remux[h].proc = c /\ remux[h].pc \in {"loop", "finally"}

\* C17: when a live-remux handler returns, however it left its streaming loop,
\* the child it started has exited or was sent terminate; no child runs
\* unobserved; and terminate is sent to a child by the handler that started it only
C17_ChildStopped ==
    /\ \A h \in Handlers :
          (remux[h].pc = "returned" /\ remux[h].proc # 0) =>
             \/ children[remux[h].proc].status = "exited"
             \/ h \in children[remux[h].proc].signalled
    /\ \A c \in 1..Len(children) :
          /\ ~Unobserved(c)
          /\ children[c].signalled \subseteq {children[c].parent}

\* a handler returns after its client disconnected mid-stream and has sent
\* terminate to its running child, while the child of the other handler runs
C17_Witness ==
    \E h, g \in Handlers :
       /\ h # g
       /\ remux[h].pc = "returned"
       /\ remux[h].cause = "disconnected"
       /\ remux[h].sent > 0
       /\ h \in children[remux[h].proc].signalled
       /\ remux[g].pc = "loop"
       /\ children[remux[g].proc].status = "running"
       /\ children[remux[g].proc].signalled = {}


\* C18: after a BitrateCompress task succeeded, the file at the path of the
\* task is an .mp4 whose overall bitrate is at most the target bitrate
C18_CompressedToTarget ==
    (task.kind = "compress" /\ TaskSucceeded) =>
       /\ IsFile(task.src)
       /\ PathSuffix(task.src) = <<".", "mp4">>
       /\ fs[task.src].media.bitrate <= TARGET_BITRATE


----------------------------------------------------------------------------
(* The worker and the changes of the folder *)

\* a file in a legacy container without its .mp4
IsConvertible(p) ==
    /\ IsFile(p)
    /\ PathSuffix(p) \in CONVERTIBLE
    /\ ~IsFile(WithSuffix(p, <<".", "mp4">>))

\* the .mp4 of a source exists and the published catalog lists it as playable
IsConverted(p) ==
    /\ IsFile(WithSuffix(p, <<".", "mp4">>))
    /\ \E i \in 1..Len(video_list) :
          /\ EntryFile(video_list[i]) = WithSuffix(p, <<".", "mp4">>)
          /\ video_list[i].playable

\* C19: with fair scheduling and every transcoder invocation succeeding, a
\* convertible file present at startup or added while the server runs is
\* eventually converted and listed as playable in the published catalog
C19_EventuallyConverted ==
    \A p \in AddedFiles \cup {InRoot(<<"a", ".", "mkv">>)} :
       IsConvertible(p) ~> IsConverted(p)


\* C20: no failure of an invocation and no file deleted or replaced between its
\* classification and its task ends the worker thread: the thread is over only
\* after the loop saw the stop flag
C20_WorkerSurvives ==
    /\ wpc # "crashed"
    /\ wpc = "exited" => stop_event


C22_StopsAfterCurrent == hist.after_stop <= 1


----------------------------------------------------------------------------
(* Ranges without an end, ranges past the end, and headers of other forms *)

\* C24: for a file of size N > 0 under the watched root and a start s < N, the
\* header bytes=s- and every header bytes=s-e with e >= N are answered 206 with
\* Content-Range bytes s-(N-1)/N and Content-Length N-s, and a GET is sent the
\* bytes s..N-1
C24_OpenAndClampedRange ==
    \A s \in 0..MaxOff :
      LET N == Len(fs[full_path].data)
      IN  ( /\ Answered /\ PlainVideo /\ TargetUnderRoot
            /\ N > 0 /\ s < N
            /\ (IsOpenRange(s) \/ \E e \in 0..MaxOff : e >= N /\ IsRange(s, e)) )
          => /\ resp.status = 206
             /\ resp.content_range = [kind |-> "range", s |-> s, e |-> N - 1, n |-> N]
             /\ resp.content_length = N - s
             /\ req.method = "GET" => resp.body = Slice(fs[full_path].data, s, N - 1)

\* the five bytes of a.mp4 were asked for from offset 2 to offset 6, past its end
C24_Witness ==
    /\ Answered /\ req.method = "GET" /\ PlainVideo /\ TargetUnderRoot
    /\ IsRange(2, 6)
    /\ Len(fs[full_path].data) = 5
    /\ resp.status = 206
    /\ resp.body = <<13, 14, 15>>

\* C26: a GET on the plain /video route without a Range header is answered 200
\* with Content-Length equal to the size of the file and is sent the whole file
\* by _stream_file; a HEAD on any route is answered the status and the headers
\* its GET was answered, is sent no body, and starts no transcoder
C26_FullFileAndHead ==
    /\ ( /\ Answered /\ req.method = "GET" /\ PlainVideo /\ TargetUnderRoot
         /\ ~req.range_present )
       => /\ resp.status = 200
          /\ resp.content_length = Len(fs[full_path].data)
          /\ resp.body = fs[full_path].data
          /\ resp.content_range = NoContentRange
          /\ Len(fs[full_path].data) > 0 => hfile.path = full_path
    /\ (hpc = "done" /\ req.method = "HEAD")
       => /\ resp.body = <<>> /\ resp.catalog = <<>> /\ ~resp.errpage
          /\ proc = "none"
          /\ hist.twin.asked => Headers(resp) = hist.twin.headers

\* a HEAD that repeats a GET of the whole of a.mp4 was answered
C26_Witness ==
    /\ hpc = "done" /\ req.method = "HEAD" /\ hist.twin.asked
    /\ Route(req.path) = "video" /\ TargetUnderRoot
    /\ ~req.range_present
    /\ resp.status = 200
    /\ resp.content_length = 5

\* the header is bytes=<digits>-<digits or nothing> and nothing else
ExactRange(h) ==
    /\ RangeMatch(h).ok
    /\ h = <<"bytes=">> \o RangeMatch(h).g1 \o <<"-">> \o RangeMatch(h).g2

\* C25: every Range header (with a value) of another form than
\* bytes=<start>-[<end>] is answered 416 with Content-Range bytes */<size>, and
\* no byte of the file is sent
C25_MalformedRejected ==
    ( /\ Answered /\ PlainVideo /\ TargetUnderRoot
      /\ req.range_present /\ req.range # <<>> /\ ~ExactRange(req.range) )
    => /\ resp.status = 416
       /\ resp.content_range = [kind |-> "unsat", s |-> 0, e |-> 0,
                                n |-> Len(fs[full_path].data)]
       /\ resp.body = <<>>
       /\ opened = {}

----------------------------------------------------------------------------
(* What the classifier lists *)

\* what the bitrate probe of the last classification pass returned for a file:
\* 0 when the probe is missing or failed on it
ProbedBitrate(p) ==
    IF ~ffprobe_path \/ p \in hist.cls_failed THEN 0 ELSE hist.cls_fs[p].media.bitrate

\* C27: a classification pass lists an .mp4 for BitrateCompress exactly when
\* it probed the file (the name does not start with "_") and the probe returned
\* a bitrate strictly above the ceiling; a missing or failed probe counts as 0
\* and lists nothing, and nothing but such .mp4 files is listed
C27_CompressIffAboveCeiling ==
    hist.cls_n >= 1 =>
      /\ \A p \in FilesUnder(hist.cls_fs) :
            EndsWith(PathName(p), <<".", "mp4">>) =>
              ( p \in SeqToSet(hist.cls_lists.compress)
                <=> (~IsTempName(p) /\ ProbedBitrate(p) > MAX_BITRATE) )
      /\ \A p \in SeqToSet(hist.cls_lists.compress) :
            p \in FilesUnder(hist.cls_fs) /\ EndsWith(PathName(p), <<".", "mp4">>)
      /\ (~ffprobe_path => hist.cls_lists.compress = <<>>)

\* a pass in which the probe failed on an .mp4 above the ceiling and listed
\* nothing for compression
C27_Witness ==
    /\ hist.cls_n >= 1
    /\ ffprobe_path
    /\ hist.cls_lists.compress = <<>>
    /\ \E p \in hist.cls_failed :
          /\ EndsWith(PathName(p), <<".", "mp4">>)
          /\ hist.cls_fs[p].media.bitrate > MAX_BITRATE

\* a browser-native file (.mp4 or .webm) of the parent directory and stem of p
\* exists in the folder f
NativeTwin(f, p) ==
    \E q \in FilesUnder(f) :
       /\ PathParent(q) = PathParent(p)
       /\ PathStem(q) = PathStem(p)
       /\ PathSuffix(q) \in browser_playable

\* C28: a classification pass lists a file for ContainerConvert exactly when
\* it is a recording of a convertible, non-browser-native format and no .mp4 or
\* .webm of its parent directory and stem exists
C28_ConvertIffNoNativeTwin ==
    hist.cls_n >= 1 =>
      \A p \in FilesUnder(hist.cls_fs) :
         p \in SeqToSet(hist.cls_lists.convert)
         <=> (PathSuffix(p) \in CONVERTIBLE /\ ~NativeTwin(hist.cls_fs, p))

----------------------------------------------------------------------------
(* The choice between the live remux and the file *)

\* the response is the one of the live remux: 200, Cache-Control, no
\* Content-Length and no Accept-Ranges
Remuxed ==
    /\ resp.status = 200 /\ resp.cache_control
    /\ resp.content_length = -1 /\ ~resp.accept_ranges

\* the audio parameter of the request names an index other than the default 0
NonDefaultAudio == req.audio_present /\ IsDigitStr(req.audio) /\ IntOf(req.audio) # 0

\* C30: with the transcoder present, a request for a file on the /video route
\* is answered by the live remux exactly when its audio parameter names a
\* non-default index; without the parameter, with a non-numeric one or with
\* index 0 it is answered from the file (200 with Content-Length, 206 or 416)
C30_RemuxIffNonDefault ==
    ( /\ hpc = "done" /\ ~resp.crashed /\ Route(req.path) = "video"
      /\ req.method \in {"GET", "HEAD"} /\ TargetUnderRoot /\ ffmpeg_path )
    => /\ Remuxed <=> NonDefaultAudio
       /\ ~NonDefaultAudio => resp.status \in {200, 206, 416} /\ ~resp.cache_control

----------------------------------------------------------------------------
(* The audio-track cache *)

\* C29: across the scans of a folder the audio-track probe is run for a file
\* only when its mtime differs from the one its last probe saw, whatever that
\* probe's outcome; and a published entry has audio tracks only when the probed
\* list kept for its file has more than one track
C29_NoReprobeUnchanged ==
    /\ \A p \in DOMAIN hist.last_probe : ~hist.last_probe[p].again
    /\ \A i \in 1..Len(video_list) :
          video_list[i].audio_tracks # 0 =>
             LET p == video_folder \o <<"/">> \o video_list[i].path
             IN  /\ p \in DOMAIN hist.audio_cache
                 /\ hist.audio_cache[p].tracks > 1
                 /\ video_list[i].audio_tracks = hist.audio_cache[p].tracks

----------------------------------------------------------------------------
(* The batch tool *)

\* the .mp4 name of a file the batch tool processed
WebName(r) == IF r.kind = "convert" THEN WithSuffix(r.src, <<".", "mp4">>) ELSE r.src

\* where the batch tool's transcoder was told to write
BatchOutput(r) ==
    IF r.kind = "convert" THEN WithSuffix(r.src, <<".", "mp4">>)
    ELSE WithName(r.src, PathStem(r.src) \o <<".", "compressed", ".", "mp4", ".", "tmp">>)

\* C23: after the batch tool has processed a file, a success has left the
\* original content at <original name>.bak and the processed file (or its own
\* later compression) at the .mp4 name, with no file of the original content
\* left there; a failure has left the original under its name and no output
C23_BatchKeepsOriginals ==
    \A r \in hist.batch :
       IF r.ok
       THEN /\ IsFile(r.src \o <<".", "bak">>)
            /\ fs[r.src \o <<".", "bak">>] = r.original
            /\ IsFile(WebName(r))
            /\ fs[WebName(r)] \in {r.processed, compress_file(r.processed)}
       ELSE /\ IsFile(r.src)
            /\ fs[r.src] = r.original
            /\ ~IsFile(BatchOutput(r))


----------------------------------------------------------------------------
(* The subtitles of a converted recording *)

\* the conversion invocation of the running ContainerConvert task has begun
ConversionBegun ==
    /\ task.kind = "convert"
    /\ wpc \in {"convert_check", "convert_notify", "convert_finally"}

\* the sidecar of stream i of the running task was there when the task began,
\* or an extraction of this run wrote it with exit code 0
Extractable(i) ==
    LET vtt_path == SidecarPath(task.base, task.streams, i)
    IN  vtt_path \in hist.direct \/ vtt_path \in DOMAIN task.fs0

\* C31: in a ContainerConvert task the conversion is invoked only after every
\* embedded text stream has had its extraction attempt, whether or not the
\* attempts succeeded, and no extraction follows it; after a successful task
\* every stream that was extractable has its sidecar beside the new .mp4
C31_SubsBeforeConvert ==
    /\ (task.kind = "convert" /\ wpc = "convert_subs") => task.result = "none"
    /\ ConversionBegun =>
          /\ task.i = Len(task.streams) + 1
          /\ task.result # "none"
    /\ (ConversionBegun /\ task.renamed) =>
          /\ IsFile(task.out)
          /\ \A i \in 1..Len(task.streams) :
                Extractable(i) =>
                   /\ IsFile(SidecarPath(task.base, task.streams, i))
                   /\ PathParent(SidecarPath(task.base, task.streams, i))
                        = PathParent(task.out)

\* a recording of two titled streams was converted after one extraction
\* failed and the other wrote its sidecar
C31_Witness ==
    /\ ConversionBegun /\ task.renamed
    /\ Len(task.streams) = 2
    /\ ~task.all_ok
    /\ \E i \in 1..2 : SidecarPath(task.base, task.streams, i) \in hist.direct


----------------------------------------------------------------------------
(* The end of the Box Reader *)

\* C32: the Box Reader returns on every file, a file with a box of size field
\* 1 and a 64-bit size of 0 included, so neither a classification pass of the
\* worker nor the startup classification stays in it for ever
C32_BoxReaderReturns ==
    /\ wpc \notin {"hung", "main_hung"}
    /\ hist.cls_n >= 1 => _needs_faststart(fs[BoxPath]) # "hang"


-----------------------------------------------------------------------------
(* The commit of an in-place rewrite whose steps may fail *)

\* lines 260-266 and 323-333 are inside the try: mp4_path.unlink(),
\* temp_path.rename(mp4_path) or the callback raises, and the handler goes on
\* in "except Exception" (274-277, 342-345)
commit_step_raises ==
    /\ \/ wpc \in {"fix_check", "compress_check"} /\ Succeeded(task)
       \/ wpc \in {"fix_rename", "compress_rename"}
       \/ wpc \in {"fix_notify", "compress_notify"}
    /\ task' = [task EXCEPT !.raised = TRUE]
    /\ wpc' = IF task.kind = "fix" THEN "fix_check" ELSE "compress_check"
    /\ UNCHANGED <<fs, httpVars, remuxVars, ffmpeg_path, ffprobe_path, lists,
                   converting_now, stop_event, video_list, videos, hist>>

NextFault == Next \/ commit_step_raises

SpecFault == Init /\ [][NextFault]_vars

\* the handler of an in-place rewrite has returned
InPlaceReturned ==
    /\ task.kind \in {"fix", "compress"}
    /\ task.phase = "returned"
    /\ task.src \in DOMAIN task.fs0

\* C33: when the handler of a LayoutFix or BitrateCompress returns, also after
\* a failure of one step of the commit (the delete of the original, the rename
\* of the temp output, the callback), a complete file, the original or the
\* rewritten one, is at the path of the asset.
C33_AssetNeverLost ==
    InPlaceReturned
    => /\ IsFile(task.src)
       /\ fs[task.src] \in {task.fs0[task.src],
                            FaststartOutput(task.fs0[task.src]),
                            CompressOutput(task.fs0[task.src])}


-----------------------------------------------------------------------------
(* The in-place commit as its observers see it *)

\* an in-place rewrite is under way and nothing in it has failed
InPlaceUnderWay ==
    /\ task.kind \in {"fix", "compress"}
    /\ task.phase = "run"
    /\ task.result \in {"none", "zero"}
    /\ ~task.raised
    /\ task.src \in DOMAIN task.fs0

\* the catalog l has the entry of the file p
Lists(l, p) == \E i \in 1..Len(l) : EntryFile(l[i]) = p

\* C34: at every instant of a successful LayoutFix or BitrateCompress the path
\* of the asset names a complete file, the old one or the new one, so that a
\* scan at that instant has the asset and the published catalog does not lose
\* it (and a request for it finds the file).
C34_CommitAtomic ==
    InPlaceUnderWay
    => /\ IsFile(task.src)
       /\ fs[task.src] \in {task.fs0[task.src],
                            FaststartOutput(task.fs0[task.src]),
                            CompressOutput(task.fs0[task.src])}
       /\ Lists(scan(task.fs0), task.src) => Lists(video_list, task.src)


-----------------------------------------------------------------------------
(* A /video request served while the Pipeline Worker rewrites the file *)

\* GET /video/a.mp4, whole and with a range
RaceRequests ==
    { [method |-> "GET", path |-> <<"/", "video", "/", "a", ".", "mp4">>,
       audio_present |-> FALSE, audio |-> <<>>, range_present |-> FALSE,
       range |-> <<>>],
      [method |-> "GET", path |-> <<"/", "video", "/", "a", ".", "mp4">>,
       audio_present |-> FALSE, audio |-> <<>>, range_present |-> TRUE,
       range |-> <<"bytes=">> \o Num(1) \o <<"-">> \o Num(3)] }

\* an .mp4 the worker will rewrite twice: the media data first, and above the
\* bitrate threshold
RaceDisks == { InRoot(<<"a", ".", "mp4">>) :> Mp4File(FALSE, HighRate, <<>>) }

InitRace ==
    /\ fs \in RaceDisks
    /\ ffmpeg_path = TRUE
    /\ ffprobe_path = TRUE
    /\ req = NoReq /\ resp = NoResp /\ hpc = "idle" /\ hfile = NoFile
    /\ opened = {} /\ proc = "none"
    /\ wpc = "main"
    /\ lists = NoLists
    /\ task = NoTask
    /\ converting_now = <<>>
    /\ stop_event = FALSE
    /\ video_list = <<>>
    /\ videos = <<>>
    /\ hist = NoHist
    /\ remux = NoRemux /\ children = <<>>

\* a handler thread of the ThreadingHTTPServer beside the worker thread
NextRace ==
    \/ \E r \in RaceRequests : Receive(r)
    \/ _handle_video_stream \/ _stream_file_open \/ _stream_file_block \/ _finish
    \/ main_startup \/ _run_classify \/ _run_wait \/ _run_for_ends
    \/ _fix_faststart_begin \/ _fix_faststart_run \/ _fix_faststart_unlink
    \/ _fix_faststart_rename \/ _fix_faststart_notify \/ _fix_faststart_cleanup
    \/ _fix_faststart_finally
    \/ _compress_video_begin \/ _compress_video_run \/ _compress_video_unlink
    \/ _compress_video_rename \/ _compress_video_notify \/ _compress_video_cleanup
    \/ _compress_video_finally

SpecRace == InitRace /\ [][NextRace]_vars

\* the handler of a GET for a video has returned after a 200 or a 206 that
\* announced a Content-Length, and the client was there to the end
VideoServed ==
    /\ hpc = "done"
    /\ req.method = "GET"
    /\ Route(req.path) = "video"
    /\ resp.status \in {200, 206}
    /\ resp.content_length >= 0
    /\ ~resp.aborted

\* C35: for every 200 or 206 /video response to a client that stays connected,
\* the body bytes written are as many as the Content-Length announced, also
\* when a commit of the worker replaces or deletes the file between the size
\* lookup of the handler and the end of its streaming.
C35_BodyMatchesLength ==
    VideoServed => Len(resp.body) = resp.content_length


-----------------------------------------------------------------------------
(* The published catalog after the last change of the folder *)

\* folders whose last change is the work of the Pipeline Worker
SettleDisks ==
    { \* an .mp4 with an external .srt: SubtitleExtract adds a.vtt
      (InRoot(<<"a", ".", "mp4">>) :> Mp4File(TRUE, LowRate, <<>>))
        @@ (InRoot(<<"a", ".", "srt">>) :> TextFile(<<49, 44, 50>>)),
      \* an .mp4 with embedded text streams: SubtitleExtract adds tagged sidecars
      InRoot(<<"d", "/", "a", ".", "mp4">>) :> Mp4File(TRUE, LowRate, TwoLangSubs),
      \* an .mp4 with the media data first: LayoutFix rewrites it in place
      InRoot(<<"a", ".", "mp4">>) :> Mp4File(FALSE, LowRate, <<>>),
      \* a recording to convert
      InRoot(<<"a", ".", "mkv">>) :> Recording(1, <<>>) }

InitSettle ==
    /\ fs \in SettleDisks
    /\ ffmpeg_path = TRUE
    /\ ffprobe_path = TRUE
    /\ req = NoReq /\ resp = NoResp /\ hpc = "idle" /\ hfile = NoFile
    /\ opened = {} /\ proc = "none"
    /\ wpc = "main"
    /\ lists = NoLists
    /\ task = NoTask
    /\ converting_now = <<>>
    /\ stop_event = FALSE
    /\ video_list = <<>>
    /\ videos = <<>>
    /\ hist = NoHist
    /\ remux = NoRemux /\ children = <<>>

\* the steps of the worker thread, the conversions and the rewrites succeeding
WorkerSettle ==
    \/ WorkerFair
    \/ _fix_faststart_begin \/ (_fix_faststart_run /\ InvocationSucceeds)
    \/ _fix_faststart_unlink \/ _fix_faststart_rename \/ _fix_faststart_notify
    \/ _fix_faststart_finally
    \/ _extract_subtitles_begin \/ _extract_subtitles_srt
    \/ _extract_subtitles_stream \/ _extract_subtitles_return

NextSettle == main_startup \/ main_rescan \/ WorkerSettle

\* where a started worker thread is while it runs
SettleRunning ==
    WorkerRunning \cup {"fix_run", "fix_check", "fix_rename", "fix_notify", "fix_finally",
                        "subs_srt", "subs_streams", "subs_finally"}

\* the worker thread takes its next step
SettleMoves == wpc \in SettleRunning /\ wpc' \in SettleRunning \ {wpc}

\* the loop over the streams takes its next iteration
StreamMoves ==
    /\ wpc = "subs_streams"
    /\ task.i <= Len(task.streams)
    /\ \E ok \in BOOLEAN : task' = [task EXCEPT !.i = @ + 1, !.all_ok = ok]

\* the periodic rescan of main() would publish: lines 1244-1246
RescanPending ==
    /\ wpc \notin {"main", "main_hung"}
    /\ ~stop_event
    /\ \/ Len(scan(fs)) # Len(videos)
       \/ \E i \in 1..Min(Len(scan(fs)), Len(videos)) : scan(fs)[i].path # videos[i].path

\* the threads are scheduled, and main() gets to every periodic rescan that
\* would publish: a rescan that publishes ends RescanPending, so that weak
\* fairness of the publishing rescan is []<>~RescanPending
SpecSettle ==
    /\ InitSettle /\ [][NextSettle]_vars
    /\ WF_wpc(MainStarts) /\ WF_wpc(SettleMoves) /\ WF_task(StreamMoves)
    /\ []<>~RescanPending

\* C36: once the folder has stopped changing, the published catalog gets to be
\* the scan of the final folder in every field (paths, sizes, subtitle lists,
\* audio tracks) and stays so, whatever the last change was: sidecars added by a
\* SubtitleExtract, or an in-place rewrite.
C36_CatalogSettles == <>[](video_list = scan(fs))


-----------------------------------------------------------------------------
(* The two publishers of the catalog: the callback of the worker thread and
   the periodic rescan of the main thread, each scan numbered by its start *)

MaxScans == 2

\* main() holds no scan it has yet to compare
NoScanned == [stamp |-> 0, list |-> <<>>]

\* line 1243: new_videos = scanner.scan()
main_rescan_scan ==
    /\ wpc \notin {"main", "main_hung"}
    /\ ~stop_event
    /\ hist.scanned = NoScanned
    /\ hist.clock < MaxScans
    /\ hist' = [hist EXCEPT !.clock = @ + 1,
                            !.scanned = [stamp |-> hist.clock + 1, list |-> scan(fs)]]
    /\ UNCHANGED <<fs, httpVars, remuxVars, ffmpeg_path, ffprobe_path, wpc, lists, task,
                   converting_now, stop_event, video_list, videos>>

\* lines 1244-1249: the comparison with the list main() holds, and the
\* assignment
main_rescan_publish ==
    /\ hist.scanned # NoScanned
    /\ LET new_videos == hist.scanned.list
       IN  IF \/ Len(new_videos) # Len(videos)
              \/ \E i \in 1..Min(Len(new_videos), Len(videos)) :
                    new_videos[i].path # videos[i].path
           THEN /\ videos' = new_videos /\ video_list' = new_videos
                /\ hist' = [hist EXCEPT !.pub = hist.scanned.stamp,
                                        !.scanned = NoScanned]
           ELSE /\ UNCHANGED <<videos, video_list>>
                /\ hist' = [hist EXCEPT !.scanned = NoScanned]
    /\ UNCHANGED <<fs, httpVars, remuxVars, ffmpeg_path, ffprobe_path, wpc, lists, task,
                   converting_now, stop_event>>

\* rescan_and_update called by the worker thread: lines 1134-1135, the scan
\* numbered
NotifyNumbered(to) ==
    /\ rescan_and_update
    /\ task' = [task EXCEPT !.notified = TRUE]
    /\ wpc' = to
    /\ hist' = [hist EXCEPT !.clock = @ + 1, !.pub = hist.clock + 1]
    /\ UNCHANGED <<fs, httpVars, remuxVars, ffmpeg_path, ffprobe_path, lists, converting_now,
                   stop_event, videos>>

_fix_faststart_notify_numbered == wpc = "fix_notify" /\ NotifyNumbered("fix_finally")

\* an .mp4 for a LayoutFix
OrderDisks == { InRoot(<<"a", ".", "mp4">>) :> Mp4File(FALSE, LowRate, <<>>) }

InitOrder ==
    /\ fs \in OrderDisks
    /\ ffmpeg_path = TRUE
    /\ ffprobe_path \in BOOLEAN
    /\ req = NoReq /\ resp = NoResp /\ hpc = "idle" /\ hfile = NoFile
    /\ opened = {} /\ proc = "none"
    /\ wpc = "main"
    /\ lists = NoLists
    /\ task = NoTask
    /\ converting_now = <<>>
    /\ stop_event = FALSE
    /\ video_list = <<>>
    /\ videos = <<>>
    /\ hist = NoHist
    /\ remux = NoRemux /\ children = <<>>

NextOrder ==
    \/ main_startup \/ main_rescan_scan \/ main_rescan_publish
    \/ _run_classify \/ _run_wait \/ _run_for_ends
    \/ _fix_faststart_begin \/ _fix_faststart_run \/ _fix_faststart_unlink
    \/ _fix_faststart_rename \/ _fix_faststart_notify_numbered
    \/ _fix_faststart_cleanup \/ _fix_faststart_finally

SpecOrder == InitOrder /\ [][NextOrder]_vars

\* C37: the published catalog never goes backwards: with the callback of the
\* worker thread and the periodic rescan of main() both publishing, the result
\* of a scan is never published over the result of a scan that started later.
C37_NeverBackwards == [][hist'.pub >= hist.pub]_vars


-----------------------------------------------------------------------------
(* What the commit of a ContainerConvert leaves of the folder *)

\* the rename of a ContainerConvert has been done
ConvertCommitted == task.kind = "convert" /\ task.renamed

\* C38: the commit of a ContainerConvert only adds files: the rename of the
\* temp output does not replace an .mp4 that was at the target path when the
\* task began (one made earlier in the same cycle from a source of the same
\* stem, for example), and every file that was there before the task, temp
\* outputs apart, is still there with its content.
C38_CommitOnlyAdds ==
    ConvertCommitted
    => /\ task.out \notin DOMAIN task.fs0
       /\ \A p \in DOMAIN task.fs0 :
             ~IsTempName(p) => (p \in DOMAIN fs /\ fs[p] = task.fs0[p])

====
